---- MODULE Spec2Model ----
(***************************************************************************)
(* A model of the textcut backend's Edit Decision Engine:                  *)
(*   - the range algebra of app/tasks/export.py                            *)
(*     (calculate_deleted_ranges, calculate_kept_ranges),                  *)
(*   - the EDL log and its writers (app/routers/transcripts.py save_edl,   *)
(*     app/routers/ai.py confirm_ai_suggestion and ai_edit_video),         *)
(*   - the ReAct loop of app/services/ai_agent.py (AIAgent.run).           *)
(* Times are seconds on an integer grid: the code only compares times and  *)
(* takes their maximum, so the grid keeps every case of the comparisons.   *)
(***************************************************************************)
EXTENDS Integers, Sequences, FiniteSets, TLC

(***************************************************************************)
(* Bounds of the model.                                                    *)
(***************************************************************************)
\* times of the enumerated inputs lie in 0..MaxTime
MaxTime == 3
\* longest list of time ranges of one delete_silences operation
MaxRanges == 3
\* longest operation list of an enumerated EDL that references segments
MaxOps == 2
\* number of HTTP requests of a run
MaxWriters == 2
\* number of AI suggestions of a run
MaxActions == 1
\* most tool calls in one response of the language model
MaxToolCalls == 1
\* fractional bits of a time (see the generators of export.py)
FracBits == 5
\* time_ranges of the EDL handed to a generator
MaxCuts == 2
\* runs of AIAgent.run that render for the same project
MaxRuns == 2
\* seconds the clock advances while the runs render
MaxClock == 2
\* segments handed to _detect_silences
MaxSegments == 2

VARIABLES
    \* ---- range algebra (export.py) ----
    segments,        \* transcript.segments handed to calculate_deleted_ranges
    operations,      \* edl.operations handed to calculate_deleted_ranges
    total_duration,  \* duration handed to calculate_kept_ranges
    deleted_ranges,  \* result of calculate_deleted_ranges
    remerged,        \* result of merging deleted_ranges once more
    kept_ranges,     \* result of calculate_kept_ranges
    rpc,             \* position of the range pipeline
    \* ---- the database rows of one project and the routers' caches ----
    project_status,       \* projects.status, or "NOT_FOUND" when there is no row
    transcript_rows,      \* rows of transcripts for the project (none or one)
    edls,                 \* rows of edls for the project, in commit order
    pending_suggestions,  \* ai.py pending_suggestions, keyed by action id
    requests,             \* the HTTP requests: inputs, locals, position, response
    \* ---- one call of AIAgent.run (ai_agent.py) ----
    apc,               \* position of run
    client,            \* self.client is set (DEEPSEEK_API_KEY configured)
    run_segments,      \* the segments argument
    messages_len,      \* len(messages)
    iteration,         \* run's local iteration
    timeline,          \* run's local timeline
    final_reply,       \* run's local final_reply
    output_video,      \* run's local output_video
    finished,          \* run's local finished
    response,          \* the latest answer of the model
    tool_results,      \* run's local tool_results
    model_calls,       \* calls of client.chat.completions.create so far
    transcoder_calls,  \* invocations of ffmpeg so far
    \* ---- the generators of export.py ----
    xpc,               \* which function of export.py has been applied
    frame_rate,        \* the frame_rate argument
    seconds,           \* the seconds argument of seconds_to_timecode
    timecode,          \* result of seconds_to_timecode
    edl_file,          \* the edit lines written by generate_edl_file
    premiere_xml,      \* the sequence written by generate_premiere_xml
    fcpxml,            \* the spine written by generate_fcpxml
    \* ---- renders of several runs for one project (ai_agent.py 368-456) ----
    clock,             \* time.time(), counted in half seconds
    renders,           \* per run: position and output path of _render_video
    \* ---- TranscriptionService._detect_silences (transcription.py 231-285) ----
    result_segments,   \* the segments argument: result.get("segments", [])
    audio_duration,    \* the duration argument: len(audio) / 16000
    silences,          \* the list _detect_silences returns
    spc,               \* whether _detect_silences has been applied
    \* ---- one export of the project (exports.py 38-55, export.py 24-111) ----
    export,            \* the row of exports that create_export adds
    retries,           \* self.request.retries of the export_project task
    tpc                \* position of the task

rangeVars == <<segments, operations, total_duration, deleted_ranges,
               remerged, kept_ranges, rpc>>

edlVars == <<project_status, transcript_rows, edls, pending_suggestions, requests>>

agentVars == <<apc, client, run_segments, messages_len, iteration, timeline,
               final_reply, output_video, finished, response, tool_results,
               model_calls, transcoder_calls>>

exportVars == <<xpc, frame_rate, seconds, timecode, edl_file, premiere_xml, fcpxml>>

renderVars == <<clock, renders>>

silenceVars == <<result_segments, audio_duration, silences, spc>>

taskVars == <<export, retries, tpc>>

vars == <<rangeVars, edlVars, agentVars, exportVars, renderVars, silenceVars, taskVars>>

Max(a, b) == IF a >= b THEN a ELSE b

(***************************************************************************)
(* Values of the data model (schemas.py).                                  *)
(***************************************************************************)
TimeRange(s, e) == [start |-> s, end |-> e]

\* A word of a segment: {word, start, end}; only the times are read.
Word(s, e) == [start |-> s, end |-> e]

\* Word-level timestamps of a segment spanning s..e: one word per grid second.
Words(s, e) == [i \in 1..(e - s) |-> Word(s + i - 1, s + i)]

Segment(id, s, e) == [id |-> id, start |-> s, end |-> e, words |-> Words(s, e)]

\* An EDL operation is a dict; a key the dict lacks reads as [] (op.get(k, [])).
Operation(type, segment_ids, time_ranges, items, clips) ==
    [type |-> type, segment_ids |-> segment_ids,
     time_ranges |-> time_ranges, items |-> items, clips |-> clips]

DeleteSegments(ids) == Operation("delete_segments", ids, <<>>, <<>>, <<>>)
DeleteSilences(trs) == Operation("delete_silences", <<>>, trs, <<>>, <<>>)
DeleteWords(items) == Operation("delete_words", <<>>, <<>>, items, <<>>)
\* the operation ai_edit_video stores: {"type": "timeline", "clips": timeline}
Timeline(clips) == Operation("timeline", <<>>, <<>>, <<>>, clips)

WordsItem(seg_id, word_indices) ==
    [segment_id |-> seg_id, word_indices |-> word_indices]

(***************************************************************************)
(* calculate_deleted_ranges (export.py 114-164).                           *)
(***************************************************************************)
\* segment_map = {seg["id"]: seg for seg in segments}: membership
InSegmentMap(segs, seg_id) == \E i \in 1..Len(segs) : segs[i].id = seg_id

\* segment_map[seg_id]: a later segment with the same id overwrites an earlier one
SegmentMapGet(segs, seg_id) ==
    LET last == CHOOSE i \in 1..Len(segs) :
                    /\ segs[i].id = seg_id
                    /\ \A j \in (i + 1)..Len(segs) : segs[j].id # seg_id
    IN  segs[last]

\* delete_segments: one range per referenced id that is in the map
RECURSIVE EmitSegmentIds(_, _)
EmitSegmentIds(segs, ids) ==
    IF ids = <<>> THEN <<>>
    ELSE (IF InSegmentMap(segs, Head(ids))
          THEN LET seg == SegmentMapGet(segs, Head(ids))
               IN  <<TimeRange(seg.start, seg.end)>>
          ELSE <<>>)
         \o EmitSegmentIds(segs, Tail(ids))

\* mutant of EmitTimeRanges: the start and end keys swapped
EmitTimeRangesSwapped(trs) ==
    [i \in 1..Len(trs) |-> TimeRange(trs[i].end, trs[i].start)]

\* delete_silences: every listed time range, verbatim
EmitTimeRanges(trs) == [i \in 1..Len(trs) |-> TimeRange(trs[i].start, trs[i].end)]

\* mutant of EmitWordIndices: only idx < len(words) is tested, so a negative
\* index counts from the end of the list as Python indexing does
RECURSIVE EmitWordIndicesNoLowerBound(_, _)
EmitWordIndicesNoLowerBound(words, idxs) ==
    IF idxs = <<>> THEN <<>>
    ELSE (IF Head(idxs) < Len(words) /\ Head(idxs) >= -Len(words)
          THEN LET word == words[(Head(idxs) % Len(words)) + 1]
               IN  <<TimeRange(word.start, word.end)>>
          ELSE <<>>)
         \o EmitWordIndicesNoLowerBound(words, Tail(idxs))

\* delete_words, inner loop: 0 <= idx < len(words); words[idx] is 0-based
RECURSIVE EmitWordIndices(_, _)
EmitWordIndices(words, idxs) ==
    IF idxs = <<>> THEN <<>>
    ELSE (IF 0 <= Head(idxs) /\ Head(idxs) < Len(words)
          THEN LET word == words[Head(idxs) + 1]
               IN  <<TimeRange(word.start, word.end)>>
          ELSE <<>>)
         \o EmitWordIndices(words, Tail(idxs))

\* delete_words, outer loop over items
RECURSIVE EmitItems(_, _)
EmitItems(segs, items) ==
    IF items = <<>> THEN <<>>
    ELSE (IF InSegmentMap(segs, Head(items).segment_id)
          THEN EmitWordIndices(SegmentMapGet(segs, Head(items).segment_id).words,
                               Head(items).word_indices)
          ELSE <<>>)
         \o EmitItems(segs, Tail(items))

\* mutant of EmitOperation: the clips of a timeline operation and the time
\* ranges of an operation of another type are taken as deleted ranges
EmitOperationAnyType(segs, op) ==
    IF op.type = "delete_segments" THEN EmitSegmentIds(segs, op.segment_ids)
    ELSE IF op.type = "delete_words" THEN EmitItems(segs, op.items)
    ELSE EmitTimeRanges(op.time_ranges)
         \o [i \in 1..Len(op.clips) |-> TimeRange(op.clips[i].start, op.clips[i].end)]

\* the if/elif chain on op_type; any other type appends nothing
EmitOperation(segs, op) ==
    IF op.type = "delete_segments" THEN EmitSegmentIds(segs, op.segment_ids)
    ELSE IF op.type = "delete_silences" THEN EmitTimeRanges(op.time_ranges)
    ELSE IF op.type = "delete_words" THEN EmitItems(segs, op.items)
    ELSE <<>>

\* for op in operations: the unmerged deleted_ranges list
RECURSIVE EmitOperations(_, _)
EmitOperations(segs, ops) ==
    IF ops = <<>> THEN <<>>
    ELSE EmitOperation(segs, Head(ops)) \o EmitOperations(segs, Tail(ops))

\* list.sort(key=start) is stable: r goes after every element with start <= r.start
RECURSIVE InsertByStart(_, _)
InsertByStart(sorted, r) ==
    IF sorted = <<>> THEN <<r>>
    ELSE IF r.start < Head(sorted).start THEN <<r>> \o sorted
    ELSE <<Head(sorted)>> \o InsertByStart(Tail(sorted), r)

RECURSIVE SortByStart(_)
SortByStart(rs) ==
    IF rs = <<>> THEN <<>>
    ELSE InsertByStart(SortByStart(SubSeq(rs, 1, Len(rs) - 1)), rs[Len(rs)])

\* mutant of MergeTouches: touching ranges are not merged
MergeTouchesStrict(last, r) == r.start < last.end

\* the sweep: extend merged[-1] when r.start <= merged[-1].end, else append r
MergeTouches(last, r) == r.start <= last.end

RECURSIVE MergeSweep(_, _)
MergeSweep(merged, rest) ==
    IF rest = <<>> THEN merged
    ELSE LET r == Head(rest)
             n == Len(merged)
         IN  IF n > 0 /\ MergeTouches(merged[n], r)
             THEN MergeSweep([merged EXCEPT ![n].end = Max(merged[n].end, r.end)],
                             Tail(rest))
             ELSE MergeSweep(Append(merged, r), Tail(rest))

MergeRanges(rs) == MergeSweep(<<>>, SortByStart(rs))

calculate_deleted_ranges(segs, ops) == MergeRanges(EmitOperations(segs, ops))

(***************************************************************************)
(* calculate_kept_ranges (export.py 340-356).                              *)
(***************************************************************************)
\* the loop over sorted(deleted_ranges): state is (kept, current)
RECURSIVE KeptSweep(_, _, _)
KeptSweep(kept, current, rest) ==
    IF rest = <<>> THEN [kept |-> kept, current |-> current]
    ELSE LET d == Head(rest)
         IN  KeptSweep(IF d.start > current
                       THEN Append(kept, TimeRange(current, d.start))
                       ELSE kept,
                       Max(current, d.end),
                       Tail(rest))

\* mutant of KeptTail: the tail is appended also when current = duration
KeptTailInclusive(current, duration) ==
    IF current <= duration THEN <<TimeRange(current, duration)>> ELSE <<>>

\* if current < duration: kept.append({current, duration})
KeptTail(current, duration) ==
    IF current < duration THEN <<TimeRange(current, duration)>> ELSE <<>>

\* mutant of SweepOrder: the deleted ranges are swept in the order given
SweepOrderAsGiven(deleted) == deleted

\* sorted(deleted_ranges, key=lambda x: x["start"]) (export.py 348)
SweepOrder(deleted) == SortByStart(deleted)

calculate_kept_ranges(duration, deleted) ==
    IF deleted = <<>> THEN <<TimeRange(0, duration)>>
    ELSE LET sweep == KeptSweep(<<>>, 0, SweepOrder(deleted))
         IN  sweep.kept \o KeptTail(sweep.current, duration)

(***************************************************************************)
(* Inputs of the model.                                                    *)
(***************************************************************************)
Times == 0..MaxTime

\* valid TimeRange values of the grid: end > start
Ranges == {r \in [start : Times, end : Times] : r.end > r.start}

SeqsUpTo(S, n) == UNION {[1..k -> S] : k \in 0..n}

\* the transcript of the worked scenario: segments 1 = [0,2] and 2 = [5,8]
ScenarioSegments == <<Segment(1, 0, 2), Segment(2, 5, 8)>>

(***************************************************************************)
(* The EDL log of one project and the requests that write it:              *)
(*   save_edl              (transcripts.py 116-178)                        *)
(*   send_ai_instruction   (ai.py 52-123)                                  *)
(*   confirm_ai_suggestion (ai.py 126-222)                                 *)
(*   ai_edit_video         (ai.py 337-425)                                 *)
(* A handler is a coroutine: it runs without interruption up to the await  *)
(* that reads the latest EDL, and again from there to its commit.  Other   *)
(* requests run between the two, so each handler is the two steps Read and *)
(* Commit.                                                                 *)
(***************************************************************************)
Writers == 1..MaxWriters

ActionIds == 1..MaxActions

\* versions a client may send with PUT /edl
Versions == 1..MaxWriters

\* operation lists a client may send with PUT /edl, against ScenarioSegments:
\* a known segment, an unknown one, a word item on an unknown segment
SaveOperations ==
    {<<>>,
     <<DeleteSegments(<<1>>)>>,
     <<DeleteSegments(<<1>>), DeleteSegments(<<2>>)>>,
     <<DeleteSegments(<<3>>)>>,
     <<DeleteWords(<<WordsItem(3, <<0>>)>>)>>}

\* a row of edls (models.py 48-58); id is the fresh ULID, here the row number
EdlRow(id, version, ops) == [id |-> id, version |-> version, operations |-> ops]

\* mutant of LatestRows: the rows in ascending order of version
OldestRows(rows) ==
    {i \in 1..Len(rows) : \A j \in 1..Len(rows) : rows[j].version >= rows[i].version}

\* select(EDL).order_by(EDL.version.desc()).limit(1): a row of the highest
\* version; which one, among rows of equal version, is the database's choice
LatestRows(rows) ==
    {i \in 1..Len(rows) : \A j \in 1..Len(rows) : rows[j].version <= rows[i].version}

\* latest_edl as read by a handler: 0 stands for None
LatestChoices(rows) == IF rows = <<>> THEN {0} ELSE LatestRows(rows)

\* current_version = latest_edl.version if latest_edl else 0
CurrentVersion(rows, latest) == IF latest = 0 THEN 0 ELSE rows[latest].version

\* latest_edl.operations if latest_edl else []
ExistingOperations(rows, latest) == IF latest = 0 THEN <<>> ELSE rows[latest].operations

\* a clip of a timeline as _build_timeline returns it (ai_agent.py 344-351)
Clip(seg_id, s, e, repeat, speed) ==
    [segment_id |-> seg_id, start |-> s, end |-> e, repeat |-> repeat, speed |-> speed]

\* what AIAgent.run hands back to ai_edit_video (ai_agent.py 327-332):
\* finished is set only after a render of a non-empty timeline; raised stands
\* for a run that ends with an exception instead (ai_agent.py 190-198)
RunOutcomes ==
    {[finished |-> FALSE, timeline |-> <<>>, raised |-> FALSE],
     [finished |-> FALSE, timeline |-> <<Clip(1, 0, 2, 1, 1)>>, raised |-> FALSE],
     [finished |-> TRUE, timeline |-> <<Clip(1, 0, 2, 1, 1)>>, raised |-> FALSE],
     [finished |-> FALSE, timeline |-> <<>>, raised |-> TRUE]}

\* mutant of Persists: any non-empty timeline is saved
PersistsAnyTimeline(edit_result) == edit_result.timeline # <<>>

\* if edit_result.get("finished") and edit_result.get("timeline") (ai.py 388)
Persists(edit_result) == edit_result.finished /\ edit_result.timeline # <<>>

\* process_instruction (ai_agent.py 473-484): the legacy interface answers
\* no_action for every instruction
AiResult(action) ==
    [action |-> action, segments_to_delete |-> <<>>, words_to_delete |-> <<>>,
     time_ranges_to_delete |-> <<>>]

process_instruction == AiResult("no_action")

IdleRequest ==
    [kind |-> "none", pc |-> "idle", response |-> "NONE",
     version |-> 0, operations |-> <<>>,
     action_id |-> 0, confirmed |-> FALSE, ai_result |-> AiResult("none"),
     current_version |-> 0, existing_operations |-> <<>>,
     timeline |-> <<>>, finished |-> FALSE]

\* issued: the action id has been generated; action_{ULID()} never repeats
NoSuggestion == [present |-> FALSE, project_id |-> "none",
                 result |-> AiResult("none"), expired |-> FALSE, issued |-> FALSE]

\* pending_suggestions[action_id] = {project_id, result, expires_at} (ai.py 102-106)
StoredSuggestion ==
    [present |-> TRUE, project_id |-> "project", result |-> process_instruction,
     expired |-> FALSE, issued |-> TRUE]

\* mutant of DelSuggestion: the entry stays in the cache
DelSuggestionKept(a) == pending_suggestions

\* del pending_suggestions[data.action_id]
DelSuggestion(a) ==
    [pending_suggestions EXCEPT ![a] = [NoSuggestion EXCEPT !.issued = TRUE]]

Respond(req, code) == [req EXCEPT !.pc = "done", !.response = code]

\* valid_segment_ids = {seg["id"] for seg in transcript.segments}
ValidSegmentIds(transcript) == {transcript.segments[i].id : i \in 1..Len(transcript.segments)}

\* the validation loop of save_edl (transcripts.py 152-161): only operations
\* of type delete_segments are looked at
HasInvalidSegmentId(ops, valid_segment_ids) ==
    \E o \in 1..Len(ops) :
        /\ ops[o].type = "delete_segments"
        /\ \E n \in 1..Len(ops[o].segment_ids) :
               ops[o].segment_ids[n] \notin valid_segment_ids

\* mutant of VersionConflict: only a stale version is refused
VersionConflictStaleOnly(version, current_version) == version <= current_version

\* if data.version != current_version + 1: VERSION_CONFLICT (transcripts.py 141)
VersionConflict(version, current_version) == version # current_version + 1

EdlInit ==
    /\ project_status \in {"NOT_FOUND", "PROCESSING", "READY"}
    /\ transcript_rows \in {<<>>, <<[segments |-> ScenarioSegments, duration |-> 10]>>}
    /\ edls = <<>>
    /\ pending_suggestions = [a \in ActionIds |-> NoSuggestion]
    /\ requests = [w \in Writers |-> IdleRequest]

\* save_edl up to the version check (transcripts.py 123-145)
SaveEdlRead(w) ==
    /\ requests[w].pc = "idle"
    /\ \E version \in Versions, ops \in SaveOperations, latest \in LatestChoices(edls) :
        LET req == [requests[w] EXCEPT !.kind = "save_edl", !.version = version,
                                       !.operations = ops,
                                       !.current_version = CurrentVersion(edls, latest)]
        IN  requests' = [requests EXCEPT ![w] =
                IF project_status = "NOT_FOUND" THEN Respond(req, "PROJECT_NOT_FOUND")
                ELSE IF VersionConflict(version, req.current_version)
                     THEN Respond(req, "VERSION_CONFLICT")
                     ELSE [req EXCEPT !.pc = "read"]]
    /\ UNCHANGED <<project_status, transcript_rows, edls, pending_suggestions>>
    /\ UNCHANGED <<rangeVars, agentVars, exportVars, renderVars, silenceVars, taskVars>>

\* save_edl from the transcript query to the commit (transcripts.py 147-178)
SaveEdlCommit(w) ==
    /\ requests[w].pc = "read"
    /\ requests[w].kind = "save_edl"
    /\ LET req == requests[w]
           invalid == /\ transcript_rows # <<>>
                      /\ HasInvalidSegmentId(req.operations,
                                             ValidSegmentIds(transcript_rows[1]))
       IN  IF invalid
           THEN /\ requests' = [requests EXCEPT ![w] = Respond(req, "INVALID_SEGMENT_ID")]
                /\ edls' = edls
           ELSE /\ edls' = Append(edls, EdlRow(Len(edls) + 1, req.version, req.operations))
                /\ requests' = [requests EXCEPT ![w] = Respond(req, "OK")]
    /\ UNCHANGED <<project_status, transcript_rows, pending_suggestions>>
    /\ UNCHANGED <<rangeVars, agentVars, exportVars, renderVars, silenceVars, taskVars>>

\* send_ai_instruction (ai.py 52-123): stores the AI result under a fresh id
SendAiInstruction(w) ==
    /\ requests[w].pc = "idle"
    /\ LET req == [requests[w] EXCEPT !.kind = "send_ai_instruction"]
           free == {a \in ActionIds : ~pending_suggestions[a].issued}
       IN  IF project_status = "NOT_FOUND"
           THEN /\ requests' = [requests EXCEPT ![w] = Respond(req, "PROJECT_NOT_FOUND")]
                /\ UNCHANGED pending_suggestions
           ELSE IF project_status # "READY"
           THEN /\ requests' = [requests EXCEPT ![w] = Respond(req, "TRANSCRIPT_NOT_READY")]
                /\ UNCHANGED pending_suggestions
           ELSE IF transcript_rows = <<>>
           THEN /\ requests' = [requests EXCEPT ![w] = Respond(req, "TRANSCRIPT_NOT_FOUND")]
                /\ UNCHANGED pending_suggestions
           ELSE /\ free # {}
                /\ LET a == CHOOSE a \in free : \A b \in free : a <= b
                   IN  /\ pending_suggestions' = [pending_suggestions EXCEPT ![a] =
                               StoredSuggestion]
                       /\ requests' = [requests EXCEPT ![w] =
                               Respond([req EXCEPT !.action_id = a], "OK")]
    /\ UNCHANGED <<project_status, transcript_rows, edls>>
    /\ UNCHANGED <<rangeVars, agentVars, exportVars, renderVars, silenceVars, taskVars>>

\* five minutes pass: datetime.utcnow() > suggestion["expires_at"] from now on
SuggestionExpires(a) ==
    /\ pending_suggestions[a].present
    /\ ~pending_suggestions[a].expired
    /\ pending_suggestions' = [pending_suggestions EXCEPT ![a].expired = TRUE]
    /\ UNCHANGED <<project_status, transcript_rows, edls, requests>>
    /\ UNCHANGED <<rangeVars, agentVars, exportVars, renderVars, silenceVars, taskVars>>

\* confirm_ai_suggestion up to the query of the latest EDL (ai.py 133-176);
\* the request names this project or another one in its path
ConfirmRead(w) ==
    /\ requests[w].pc = "idle"
    /\ \E a \in ActionIds, confirmed \in BOOLEAN, project_id \in {"project", "other"},
          latest \in LatestChoices(edls) :
        LET req == [requests[w] EXCEPT !.kind = "confirm_ai_suggestion",
                                       !.action_id = a, !.confirmed = confirmed]
            suggestion == pending_suggestions[a]
        IN  IF ~suggestion.present
            THEN /\ requests' = [requests EXCEPT ![w] = Respond(req, "ACTION_NOT_FOUND")]
                 /\ UNCHANGED pending_suggestions
            ELSE IF suggestion.expired
            THEN /\ pending_suggestions' = DelSuggestion(a)
                 /\ requests' = [requests EXCEPT ![w] = Respond(req, "ACTION_EXPIRED")]
            ELSE IF suggestion.project_id # project_id
            THEN /\ requests' = [requests EXCEPT ![w] = Respond(req, "PROJECT_MISMATCH")]
                 /\ UNCHANGED pending_suggestions
            ELSE IF ~confirmed
            THEN /\ pending_suggestions' = DelSuggestion(a)
                 /\ requests' = [requests EXCEPT ![w] = Respond(req, "NOT_APPLIED")]
            ELSE /\ requests' = [requests EXCEPT ![w] =
                        [req EXCEPT !.pc = "read",
                                    !.ai_result = suggestion.result,
                                    !.current_version = CurrentVersion(edls, latest),
                                    !.existing_operations = ExistingOperations(edls, latest)]]
                 /\ UNCHANGED pending_suggestions
    /\ UNCHANGED <<project_status, transcript_rows, edls>>
    /\ UNCHANGED <<rangeVars, agentVars, exportVars, renderVars, silenceVars, taskVars>>

\* the operation confirm_ai_suggestion builds from the AI result (ai.py 180-193)
SuggestedOperation(ai_result) ==
    IF ai_result.action = "delete_silences" THEN DeleteSilences(ai_result.time_ranges_to_delete)
    ELSE IF ai_result.action = "delete_segments" THEN DeleteSegments(ai_result.segments_to_delete)
    ELSE DeleteWords(ai_result.words_to_delete)

\* confirm_ai_suggestion from there to its return (ai.py 177-222);
\* del pending_suggestions[action_id] raises KeyError when the key is gone
ConfirmCommit(w) ==
    /\ requests[w].pc = "read"
    /\ requests[w].kind = "confirm_ai_suggestion"
    /\ LET req == requests[w]
           a == req.action_id
           gone == ~pending_suggestions[a].present
           writes == req.ai_result.action \in
                         {"delete_silences", "delete_segments", "delete_words"}
       IN  /\ edls' = IF writes
                      THEN Append(edls, EdlRow(Len(edls) + 1, req.current_version + 1,
                                  Append(req.existing_operations,
                                         SuggestedOperation(req.ai_result))))
                      ELSE edls
           /\ pending_suggestions' = DelSuggestion(a)
           /\ requests' = [requests EXCEPT ![w] =
                  Respond(req, IF gone THEN "INTERNAL_ERROR"
                               ELSE IF writes THEN "APPLIED" ELSE "NOT_APPLIED")]
    /\ UNCHANGED <<project_status, transcript_rows>>
    /\ UNCHANGED <<rangeVars, agentVars, exportVars, renderVars, silenceVars, taskVars>>

\* ai_edit_video up to the query of the latest EDL (ai.py 349-402): the checks,
\* the agent run, and the test on its result
AiEditRead(w) ==
    /\ requests[w].pc = "idle"
    /\ \E outcome \in RunOutcomes, latest \in LatestChoices(edls) :
        LET called == [requests[w] EXCEPT !.kind = "ai_edit_video"]
            req == [called EXCEPT !.timeline = outcome.timeline,
                                  !.finished = outcome.finished]
        IN  requests' = [requests EXCEPT ![w] =
                IF project_status = "NOT_FOUND" THEN Respond(called, "PROJECT_NOT_FOUND")
                ELSE IF project_status # "READY"
                     THEN Respond(called, "TRANSCRIPT_NOT_READY")
                ELSE IF transcript_rows = <<>>
                     THEN Respond(called, "TRANSCRIPT_NOT_FOUND")
                ELSE IF outcome.raised
                     THEN Respond(called, "AI_PROCESSING_FAILED")
                ELSE IF Persists(outcome)
                     THEN [req EXCEPT !.pc = "read",
                                      !.current_version = CurrentVersion(edls, latest)]
                     ELSE Respond(req, "OK")]
    /\ UNCHANGED <<project_status, transcript_rows, edls, pending_suggestions>>
    /\ UNCHANGED <<rangeVars, agentVars, exportVars, renderVars, silenceVars, taskVars>>

\* ai_edit_video from there to the commit (ai.py 403-425)
AiEditCommit(w) ==
    /\ requests[w].pc = "read"
    /\ requests[w].kind = "ai_edit_video"
    /\ LET req == requests[w]
       IN  /\ edls' = Append(edls, EdlRow(Len(edls) + 1, req.current_version + 1,
                                          <<Timeline(req.timeline)>>))
           /\ requests' = [requests EXCEPT ![w] = Respond(req, "OK")]
    /\ UNCHANGED <<project_status, transcript_rows, pending_suggestions>>
    /\ UNCHANGED <<rangeVars, agentVars, exportVars, renderVars, silenceVars, taskVars>>

InFlight == {w \in Writers : requests[w].pc = "read"}

\* the range pipeline is not part of this specification
RangeIdle ==
    /\ segments = <<>>
    /\ operations = <<>>
    /\ total_duration = 0
    /\ deleted_ranges = <<>>
    /\ remerged = <<>>
    /\ kept_ranges = <<>>
    /\ rpc = "idle"

\* the database and the requests are not part of SpecRange
EdlIdle ==
    /\ project_status = "READY"
    /\ transcript_rows = <<>>
    /\ edls = <<>>
    /\ pending_suggestions = [a \in ActionIds |-> NoSuggestion]
    /\ requests = [w \in Writers |-> IdleRequest]

(***************************************************************************)
(* The generators of export.py.  A time is a Python float, which is a      *)
(* binary fraction: the model counts a time in ticks of 1/2^FracBits       *)
(* second, keeping FracBits fractional bits where the double keeps a       *)
(* mantissa of 52 bits.  A time that is no binary fraction, such as        *)
(* 25/24 s, is the nearest tick, as the float is the nearest double.  Sums,*)
(* differences and products of times are exact.  The range algebra above   *)
(* only compares and copies times, so it is indifferent to the unit.       *)
(***************************************************************************)
TicksPerSecond == 2^FracBits

\* the float written n (whole seconds)
Seconds(n) == n * TicksPerSecond

\* the float nearest to k / rate seconds: the time of frame k
FrameTime(k, rate) == (2 * k * TicksPerSecond + rate) \div (2 * rate)

\* f"{hours:02d}:{minutes:02d}:{secs:02d}:{frames:02d}" (export.py 366)
Timecode(hours, minutes, secs, frames) ==
    [hours |-> hours, minutes |-> minutes, secs |-> secs, frames |-> frames]

\* mutant of Frames: the nearest frame instead of the frame begun
FramesRounded(fraction, rate) ==
    (2 * fraction * rate + TicksPerSecond) \div (2 * TicksPerSecond)

\* int((seconds % 1) * frame_rate) (export.py 364), fraction = seconds % 1
Frames(fraction, rate) == (fraction * rate) \div TicksPerSecond

\* seconds_to_timecode (export.py 359-366)
seconds_to_timecode(secs_in, rate) ==
    LET hours == secs_in \div Seconds(3600)
        minutes == (secs_in % Seconds(3600)) \div Seconds(60)
        secs == (secs_in % Seconds(60)) \div Seconds(1)
        frames == Frames(secs_in % Seconds(1), rate)
    IN  Timecode(hours, minutes, secs, frames)

\* mutant of RecordAdvance: the record position jumps to the range's end
RecordAdvanceToEnd(timeline_pos, r) == timeline_pos + r.end

\* timeline_pos += r["end"] - r["start"] (export.py 334)
RecordAdvance(timeline_pos, r) == timeline_pos + (r.end - r.start)

\* one edit line of the CMX3600 file (export.py 323-331); edit_num is i + 1
\* of the code's 0-based i
EdlLine(edit_num, r, timeline_pos, rate) ==
    [edit_num |-> edit_num,
     src_in |-> seconds_to_timecode(r.start, rate),
     src_out |-> seconds_to_timecode(r.end, rate),
     rec_in |-> seconds_to_timecode(timeline_pos, rate),
     rec_out |-> seconds_to_timecode(timeline_pos + (r.end - r.start), rate)]

\* the loop of generate_edl_file (export.py 320-334)
RECURSIVE EdlSweep(_, _, _, _)
EdlSweep(kept, edit_num, timeline_pos, rate) ==
    IF edit_num > Len(kept) THEN <<>>
    ELSE <<EdlLine(edit_num, kept[edit_num], timeline_pos, rate)>>
         \o EdlSweep(kept, edit_num + 1, RecordAdvance(timeline_pos, kept[edit_num]), rate)

\* generate_edl_file (export.py 303-337): the edit lines after the header
generate_edl_file(duration, deleted, rate) ==
    EdlSweep(calculate_kept_ranges(duration, deleted), 1, 0, rate)

\* mutant of FrameNumber: the nearest frame
FrameNumberRounded(t, rate) == (2 * t * rate + TicksPerSecond) \div (2 * TicksPerSecond)

\* int(t * frame_rate) (export.py 264, 284-287)
FrameNumber(t, rate) == (t * rate) \div TicksPerSecond

\* one clipitem of the track (export.py 280-287)
ClipItem(i, r, rate) ==
    [id |-> i, start |-> FrameNumber(r.start, rate), end |-> FrameNumber(r.end, rate),
     in |-> FrameNumber(r.start, rate), out |-> FrameNumber(r.end, rate)]

\* generate_premiere_xml (export.py 246-300): the sequence
generate_premiere_xml(duration, deleted, rate) ==
    LET kept == calculate_kept_ranges(duration, deleted)
    IN  [duration |-> FrameNumber(duration, rate),
         timebase |-> rate,
         clipitems |-> [i \in 1..Len(kept) |-> ClipItem(i, kept[i], rate)]]

\* mutant of ClipDuration: the range's end
ClipDurationIsEnd(r) == r.end

\* f"{r['end'] - r['start']}s" (export.py 224)
ClipDuration(r) == r.end - r.start

\* one clip of the spine (export.py 221-225)
SpineClip(i, r) ==
    [name |-> i, offset |-> r.start, duration |-> ClipDuration(r), start |-> r.start]

\* generate_fcpxml (export.py 167-243): the spine
generate_fcpxml(duration, deleted, rate) ==
    LET kept == calculate_kept_ranges(duration, deleted)
    IN  [i \in 1..Len(kept) |-> SpineClip(i, kept[i])]

NoSequence == [duration |-> 0, timebase |-> 0, clipitems |-> <<>>]

\* no generator of export.py has run
ExportIdle ==
    /\ xpc = "idle"
    /\ frame_rate = 0
    /\ seconds = 0
    /\ timecode = Timecode(0, 0, 0, 0)
    /\ edl_file = <<>>
    /\ premiere_xml = NoSequence
    /\ fcpxml = <<>>

\* options.get("frame_rate", 30), and the film rate
FrameRates == {24, 30}

\* the format argument of export_project (export.py 60-90)
Formats == {"fcpxml", "premiere_xml", "edl"}

\* export_project (export.py 24-111), the Celery task: it reads the project,
\* the transcript and the EDL row of the highest version in one session,
\* computes the deleted ranges and calls the generator of the format.  Without
\* project or transcript it fails and is retried later.
\* export.py 49-90 for a supported format: the deleted ranges of the latest
\* EDL row and the generator of the format
RunsGenerator(latest, format, rate) ==
    LET transcript == transcript_rows[1]
        ops == ExistingOperations(edls, latest)
        deleted == calculate_deleted_ranges(transcript.segments, ops)
    IN  /\ segments' = transcript.segments
        /\ operations' = ops
        /\ deleted_ranges' = deleted
        /\ total_duration' = transcript.duration
        /\ kept_ranges' = calculate_kept_ranges(transcript.duration, deleted)
        /\ frame_rate' = rate
        /\ edl_file' = IF format = "edl"
                       THEN generate_edl_file(transcript.duration, deleted, rate)
                       ELSE edl_file
        /\ premiere_xml' =
               IF format = "premiere_xml"
               THEN generate_premiere_xml(transcript.duration, deleted, rate)
               ELSE premiere_xml
        /\ fcpxml' = IF format = "fcpxml"
                     THEN generate_fcpxml(transcript.duration, deleted, rate)
                     ELSE fcpxml
        /\ xpc' = format
        /\ UNCHANGED <<remerged, rpc, seconds, timecode>>

ExportProject ==
    /\ xpc \in {"idle", "failed"}
    /\ IF project_status = "NOT_FOUND" \/ transcript_rows = <<>>
       THEN /\ xpc' = "failed"
            /\ UNCHANGED <<rangeVars, frame_rate, edl_file, premiere_xml, fcpxml,
                           seconds, timecode>>
       ELSE \E latest \in LatestChoices(edls), format \in Formats, rate \in FrameRates :
                RunsGenerator(latest, format, rate)
    /\ UNCHANGED <<edlVars, agentVars, renderVars, silenceVars, taskVars>>

\* the runs that render for one project
Runs == 1..MaxRuns

NoRender == [pc |-> "idle", output_path |-> -1]

\* no run renders
RenderIdle ==
    /\ clock = 0
    /\ renders = [r \in Runs |-> NoRender]

\* a row of exports (models.py 61-77); None is written "None"
ExportRow(status, format, file_url, file_key, expires_at, error_message) ==
    [status |-> status, format |-> format, file_url |-> file_url,
     file_key |-> file_key, expires_at |-> expires_at, error_message |-> error_message]

\* create_export has not been called: exports has no row
NoExport == ExportRow("absent", "None", "None", "None", "None", "None")

TaskIdle ==
    /\ export = NoExport
    /\ retries = 0
    /\ tpc = "none"

\* _detect_silences has not been applied
SilenceIdle ==
    /\ result_segments = <<>>
    /\ audio_duration = 0
    /\ silences = <<>>
    /\ spc = "idle"

(***************************************************************************)
(* AIAgent.run (ai_agent.py 161-332): the ReAct loop.  The language model  *)
(* and the transcoder are the environment: each answer of the model and    *)
(* each outcome of a render is a choice.  The tool calls of one answer are *)
(* drawn one by one as the loop reaches them.                              *)
(***************************************************************************)
\* self.max_iterations = 10
max_iterations == 10

\* a key that is absent from a dict of tool arguments, or None
Missing == -1

\* dict.get(key, default)
Get(value, default) == IF value = Missing THEN default ELSE value

\* one element of the clips argument of create_timeline
ToolClip(seg_id, s, e, repeat, speed) ==
    [segment_id |-> seg_id, start |-> s, end |-> e, repeat |-> repeat, speed |-> speed]

\* the clips arguments the model may send: none, clips by known and unknown
\* segment id, clips by time with end > start and end <= start, clips that
\* carry repeat and speed (2 and 2, 0 and 0, a negative repeat), a clip with a
\* known segment id and explicit times
ToolClipLists ==
    {<<>>,
     <<ToolClip(1, Missing, Missing, Missing, Missing)>>,
     <<ToolClip(9, Missing, Missing, Missing, Missing)>>,
     <<ToolClip(Missing, 1, 3, Missing, Missing)>>,
     <<ToolClip(Missing, 3, 1, Missing, Missing)>>,
     <<ToolClip(9, 1, 3, Missing, Missing)>>,
     <<ToolClip(2, Missing, Missing, 2, 2), ToolClip(Missing, 2, 2, Missing, Missing),
       ToolClip(Missing, 0, 1, 0, 0)>>,
     <<ToolClip(1, 1, 3, 2, Missing), ToolClip(Missing, 1, 2, -2, 2)>>}

\* mutant of SegmentClip: explicit times of the proposed clip win
SegmentClipExplicitTimes(clip, seg) ==
    Clip(clip.segment_id, Get(clip.start, seg.start), Get(clip.end, seg.end),
         Get(clip.repeat, 1), Get(clip.speed, 1))

\* the clip appended for a known segment id (ai_agent.py 343-351)
SegmentClip(clip, seg) ==
    Clip(clip.segment_id, seg.start, seg.end, Get(clip.repeat, 1), Get(clip.speed, 1))

RECURSIVE BuildClips(_, _)
\* the loop of _build_timeline (ai_agent.py 339-364)
BuildClips(clips, segs) ==
    IF clips = <<>> THEN <<>>
    ELSE LET clip == Head(clips)
             seg_id == clip.segment_id
         IN  IF seg_id # Missing /\ InSegmentMap(segs, seg_id)
             THEN <<SegmentClip(clip, SegmentMapGet(segs, seg_id))>>
                  \o BuildClips(Tail(clips), segs)
             ELSE IF clip.start # Missing /\ clip.end # Missing /\ clip.end > clip.start
             THEN <<Clip(Missing, clip.start, clip.end,
                         Get(clip.repeat, 1), Get(clip.speed, 1))>>
                  \o BuildClips(Tail(clips), segs)
             ELSE BuildClips(Tail(clips), segs)

_build_timeline(clips, segs) == BuildClips(clips, segs)

\* the answers of client.chat.completions.create: an exception, or a message
\* with a content (possibly empty) and a number of tool calls; the content of
\* a message with tool calls is only copied into messages and is left out
ModelResponses ==
    {[kind |-> "error", content |-> "", tool_calls |-> 0]}
    \cup {[kind |-> "message", content |-> c, tool_calls |-> 0] : c \in {"", "text"}}
    \cup {[kind |-> "message", content |-> "", tool_calls |-> n] : n \in 1..MaxToolCalls}

NoResponse == [kind |-> "none", content |-> "", tool_calls |-> 0]

\* the tool calls of an answer: name and arguments
ToolCalls ==
    {[name |-> "create_timeline", clips |-> c, summary |-> ""] : c \in ToolClipLists}
    \cup {[name |-> "finish_editing", clips |-> <<>>, summary |-> m] :
              m \in {"", "summary"}}
    \cup {[name |-> "unknown_tool", clips |-> <<>>, summary |-> ""],
          [name |-> "malformed_arguments", clips |-> <<>>, summary |-> ""]}

\* the outcomes of _render_video (ai_agent.py 368-456): an exception before
\* ffmpeg is started, a non-zero return code of ffmpeg, or the output path
RenderOutcomes == {"setup_error", "ffmpeg_error", "ok"}

\* assistant_message.content or "完成" (ai_agent.py 230)
ContentOrDone(content) == IF content = "" THEN "done" ELSE content

\* f"{summary}\n\n视频已渲染完成。" with summary defaulting to "剪辑完成"
RenderedReply(summary) ==
    IF summary = "" THEN "editing_done_rendered" ELSE "summary_rendered"

AgentIdle ==
    /\ apc = "idle"
    /\ client = TRUE
    /\ run_segments = <<>>
    /\ messages_len = 0
    /\ iteration = 0
    /\ timeline = <<>>
    /\ final_reply = ""
    /\ output_video = "None"
    /\ finished = FALSE
    /\ response = NoResponse
    /\ tool_results = <<>>
    /\ model_calls = 0
    /\ transcoder_calls = 0

\* run is about to be called: the key may be configured or not, the project's
\* transcript has the scenario segments or none
AgentInit ==
    /\ RangeIdle
    /\ EdlIdle
    /\ ExportIdle
    /\ RenderIdle
    /\ SilenceIdle
    /\ TaskIdle
    /\ apc = "idle"
    /\ client \in BOOLEAN
    /\ run_segments \in {<<>>, ScenarioSegments}
    /\ messages_len = 0
    /\ iteration = 0
    /\ timeline = <<>>
    /\ final_reply = ""
    /\ output_video = "None"
    /\ finished = FALSE
    /\ response = NoResponse
    /\ tool_results = <<>>
    /\ model_calls = 0
    /\ transcoder_calls = 0

\* ai_agent.py 181-208: the early return without a client, else the locals;
\* messages holds the system prompt, at most 10 messages of history, the user
\* message.  Building them is outside the try of the loop: a segment or a
\* history entry that lacks a key raises out of run.
RunStart ==
    /\ apc = "idle"
    /\ IF ~client
       THEN /\ apc' = "returned"
            /\ final_reply' = "not_configured"
            /\ UNCHANGED messages_len
       ELSE \E well_formed \in BOOLEAN, history \in {0, 12} :
              IF well_formed
              THEN /\ apc' = "loop"
                   /\ final_reply' = ""
                   /\ messages_len' = 1 + (IF history > 10 THEN 10 ELSE history) + 1
              ELSE /\ apc' = "raised"
                   /\ final_reply' = ""
                   /\ UNCHANGED messages_len
    /\ iteration' = 0
    /\ timeline' = <<>>
    /\ output_video' = "None"
    /\ finished' = FALSE
    /\ UNCHANGED <<client, run_segments, response, tool_results,
                   model_calls, transcoder_calls>>
    /\ UNCHANGED <<rangeVars, edlVars, exportVars, renderVars, silenceVars, taskVars>>

\* mutant of LoopContinues: the loop test lets one more iteration through
LoopContinuesInclusive(n) == n <= max_iterations

\* while iteration < self.max_iterations (ai_agent.py 211)
LoopContinues(n) == n < max_iterations

\* ai_agent.py 211-235 and 317-322: the loop test, the model call, the exit
\* without tool calls, the exception of the call
ModelCall ==
    /\ apc = "loop"
    /\ IF LoopContinues(iteration)
       THEN /\ iteration' = iteration + 1
            /\ model_calls' = model_calls + 1
            /\ \E r \in ModelResponses :
                   /\ response' = r
                   /\ IF r.kind = "error"
                      THEN apc' = "after_loop" /\ final_reply' = "error"
                      ELSE IF r.tool_calls = 0
                      THEN apc' = "after_loop" /\ final_reply' = ContentOrDone(r.content)
                      ELSE apc' = "tools" /\ UNCHANGED final_reply
            /\ tool_results' = <<>>
       ELSE /\ apc' = "after_loop"
            /\ UNCHANGED <<iteration, model_calls, response, final_reply, tool_results>>
    /\ UNCHANGED <<client, run_segments, messages_len, timeline, output_video,
                   finished, transcoder_calls>>
    /\ UNCHANGED <<rangeVars, edlVars, exportVars, renderVars, silenceVars, taskVars>>

\* mutant of NewTimeline: the built clips are appended to the current timeline
NewTimelineAppended(current, built) == current \o built

\* timeline = self._build_timeline(clips, segments) (ai_agent.py 245)
NewTimeline(current, built) == built

\* mutant of TimelineEmpty: the guard of finish_editing never holds
TimelineEmptyNever(tl) == FALSE

\* if not timeline (ai_agent.py 262)
TimelineEmpty(tl) == tl = <<>>

\* mutant of RenderSucceeded: a returned path is not taken as success
RenderSucceededNever(output) == FALSE

\* if output_video (ai_agent.py 272)
RenderSucceeded(output) == output # "None"

\* the filters setpts={1/speed}*PTS on [v{idx}] and atempo={speed} on [a{idx}]
\* (ai_agent.py 419-420); setpts holds the speed whose inverse scales the video
ScaleFilters(speed) == <<[filter |-> "setpts", inverse_of |-> speed],
                         [filter |-> "atempo", tempo |-> speed]>>

\* mutant of SpeedFilters: the audio keeps its tempo
SpeedFiltersVideoOnly(speed) ==
    IF speed # 1 THEN <<ScaleFilters(speed)[1]>> ELSE <<>>

\* if speed != 1.0 (ai_agent.py 418-420): the filters added after the trims
SpeedFilters(speed) == IF speed # 1 THEN ScaleFilters(speed) ELSE <<>>

\* what the instance appends to concat_inputs (ai_agent.py 421, 423): the
\* labels [v{idx}s][a{idx}s] of the scaled streams, or [v{idx}][a{idx}] of the
\* trimmed ones
ConcatInput(speed) == IF speed # 1 THEN "scaled" ELSE "trimmed"

RECURSIVE ClipInstances(_, _, _)
\* for _ in range(repeat) (ai_agent.py 410-423): idx = len(concat_inputs), one
\* trim of start..end, a speed filter when speed != 1.0
ClipInstances(clip, n, concat_inputs) ==
    IF n <= 0 THEN <<>>
    ELSE <<[idx |-> concat_inputs, start |-> clip.start, end |-> clip.end,
            speed |-> clip.speed, filters |-> SpeedFilters(clip.speed),
            concat |-> ConcatInput(clip.speed)]>>
         \o ClipInstances(clip, n - 1, concat_inputs + 1)

RECURSIVE PlanSweep(_, _)
\* for clip in timeline (ai_agent.py 404-423)
PlanSweep(tl, plan) ==
    IF tl = <<>> THEN plan
    ELSE PlanSweep(Tail(tl), plan \o ClipInstances(Head(tl), Head(tl).repeat, Len(plan)))

\* the trim instances of the ffmpeg command in concat order; concat n is
\* their number (ai_agent.py 426)
RenderPlan(tl) == PlanSweep(tl, <<>>)

\* 1/speed raises for a clip with speed 0 that is repeated at least once
\* (ai_agent.py 418-419); the exception is caught at 452-456
PlanRaises(tl) ==
    \E c \in 1..Len(tl) : tl[c].repeat >= 1 /\ tl[c].speed = 0

\* the outcomes _render_video can have for a timeline: the plan is built
\* before ffmpeg is started, and ffmpeg exits non-zero on a command without
\* trim instances (concat=n=0 is outside the range of the concat filter)
CanEndWith(outcome, tl) ==
    /\ outcome \in RenderOutcomes
    /\ outcome # "setup_error" => ~PlanRaises(tl)
    /\ outcome = "ok" => RenderPlan(tl) # <<>>

\* mutant of RenderReturn: the path is returned whatever ffmpeg's return code
RenderReturnAlwaysPath(outcome) ==
    IF outcome # "setup_error" THEN "storage/renders/output.mp4" ELSE "None"

\* what _render_video returns: the relative path, or None
RenderReturn(outcome) ==
    IF outcome = "ok" THEN "storage/renders/output.mp4" ELSE "None"

\* the outcomes of _render_video, and "not_called" for a tool call that does
\* not reach it
Outcomes == RenderOutcomes \cup {"not_called"}

\* this tool call reaches the call of _render_video (ai_agent.py 258-270)
Renders(tool_call, tl) == tool_call.name = "finish_editing" /\ ~TimelineEmpty(tl)

\* ai_agent.py 236-288: one pass of the loop over the tool calls; outcome is
\* the outcome of _render_video, "not_called" when it is not reached
ToolCall(tool_call, outcome) ==
    /\ apc = "tools"
    /\ Len(tool_results) < response.tool_calls
    /\ outcome = "not_called" <=> ~Renders(tool_call, timeline)
    /\ CASE tool_call.name = "malformed_arguments" ->
                \* json.loads or the tool raises: ai_agent.py 317-322
                /\ apc' = "after_loop"
                /\ final_reply' = "error"
                /\ UNCHANGED <<timeline, output_video, finished, tool_results,
                               transcoder_calls>>
         [] tool_call.name = "create_timeline" ->
                /\ timeline' = NewTimeline(timeline,
                                   _build_timeline(tool_call.clips, run_segments))
                /\ tool_results' = Append(tool_results,
                       [success |-> TRUE, result |-> "timeline_created"])
                /\ UNCHANGED <<apc, final_reply, output_video, finished,
                               transcoder_calls>>
         [] tool_call.name = "finish_editing" ->
                IF TimelineEmpty(timeline)
                THEN /\ tool_results' = Append(tool_results,
                            [success |-> FALSE, result |-> "timeline_empty"])
                     /\ UNCHANGED <<apc, timeline, final_reply, output_video,
                                    finished, transcoder_calls>>
                ELSE /\ CanEndWith(outcome, timeline)
                     /\ transcoder_calls' = IF outcome = "setup_error"
                                            THEN transcoder_calls
                                            ELSE transcoder_calls + 1
                     /\ output_video' = RenderReturn(outcome)
                     /\ IF RenderSucceeded(RenderReturn(outcome))
                        THEN /\ final_reply' = RenderedReply(tool_call.summary)
                             /\ finished' = TRUE
                             /\ apc' = "after_loop"
                             /\ UNCHANGED tool_results
                        ELSE /\ tool_results' = Append(tool_results,
                                    [success |-> FALSE, result |-> "render_failed"])
                             /\ UNCHANGED <<apc, final_reply, finished>>
                     /\ UNCHANGED timeline
         [] OTHER ->
                /\ tool_results' = Append(tool_results,
                       [success |-> FALSE, result |-> "unknown_tool"])
                /\ UNCHANGED <<apc, timeline, final_reply, output_video, finished,
                               transcoder_calls>>
    /\ UNCHANGED <<client, run_segments, messages_len, iteration, response, model_calls>>
    /\ UNCHANGED <<rangeVars, edlVars, exportVars, renderVars, silenceVars, taskVars>>

\* ai_agent.py 293-315: the assistant message and one tool message per result
\* are appended, and the loop goes on; tool_results is not read again before
\* the next iteration replaces it (ai_agent.py 235)
EndIteration ==
    /\ apc = "tools"
    /\ Len(tool_results) = response.tool_calls
    /\ messages_len' = messages_len + 1 + Len(tool_results)
    /\ tool_results' = <<>>
    /\ apc' = "loop"
    /\ UNCHANGED <<client, run_segments, iteration, timeline, final_reply,
                   output_video, finished, response, model_calls,
                   transcoder_calls>>
    /\ UNCHANGED <<rangeVars, edlVars, exportVars, renderVars, silenceVars, taskVars>>

\* ai_agent.py 324-332: the reply of an exhausted loop, and the return
Return ==
    /\ apc = "after_loop"
    /\ final_reply' = IF iteration >= max_iterations THEN "max_iterations_reached"
                      ELSE final_reply
    /\ apc' = "returned"
    /\ UNCHANGED <<client, run_segments, messages_len, iteration, timeline,
                   output_video, finished, response, tool_results, model_calls,
                   transcoder_calls>>
    /\ UNCHANGED <<rangeVars, edlVars, exportVars, renderVars, silenceVars, taskVars>>

AgentNext ==
    \/ RunStart
    \/ ModelCall
    \/ \E tool_call \in ToolCalls, outcome \in Outcomes : ToolCall(tool_call, outcome)
    \/ EndIteration
    \/ Return

SpecAgent == AgentInit /\ [][AgentNext]_vars

Init == EdlInit /\ RangeIdle /\ AgentIdle /\ ExportIdle /\ RenderIdle /\ SilenceIdle
        /\ TaskIdle

\* requests arrive one after the other and take the next free slot
Arrives(w) == \A v \in 1..(w - 1) : requests[v].pc # "idle"

\* concurrent requests: any handler may take its next step
Next ==
    \/ \E w \in Writers : Arrives(w) /\ SaveEdlRead(w)
    \/ \E w \in Writers : SaveEdlCommit(w)
    \/ \E w \in Writers : Arrives(w) /\ SendAiInstruction(w)
    \/ \E a \in ActionIds : SuggestionExpires(a)
    \/ \E w \in Writers : Arrives(w) /\ ConfirmRead(w)
    \/ \E w \in Writers : ConfirmCommit(w)
    \/ \E w \in Writers : Arrives(w) /\ AiEditRead(w)
    \/ \E w \in Writers : AiEditCommit(w)
    \/ ExportProject

Spec == Init /\ [][Next]_vars

\* one request at a time: a handler starts only when no other is in flight
SerialNext ==
    \/ \E w \in Writers : Arrives(w) /\ InFlight = {} /\ SaveEdlRead(w)
    \/ \E w \in Writers : SaveEdlCommit(w)
    \/ \E w \in Writers : Arrives(w) /\ InFlight = {} /\ SendAiInstruction(w)
    \/ \E a \in ActionIds : SuggestionExpires(a)
    \/ \E w \in Writers : Arrives(w) /\ InFlight = {} /\ ConfirmRead(w)
    \/ \E w \in Writers : ConfirmCommit(w)
    \/ \E w \in Writers : Arrives(w) /\ InFlight = {} /\ AiEditRead(w)
    \/ \E w \in Writers : AiEditCommit(w)
    \/ InFlight = {} /\ ExportProject

SpecSerial == Init /\ [][SerialNext]_vars

\* confirm_ai_suggestion alone: send_ai_instruction has stored a suggestion
\* under every action id, the project is ready, and it has no EDL or one
ConfirmInit ==
    /\ RangeIdle
    /\ AgentIdle
    /\ ExportIdle
    /\ RenderIdle
    /\ SilenceIdle
    /\ TaskIdle
    /\ project_status = "READY"
    /\ transcript_rows = <<[segments |-> ScenarioSegments, duration |-> 10]>>
    /\ edls \in {<<>>, <<EdlRow(1, 1, <<DeleteSegments(<<1>>)>>)>>}
    /\ pending_suggestions = [a \in ActionIds |-> StoredSuggestion]
    /\ requests = [w \in Writers |-> IdleRequest]

\* concurrent confirmations of the stored suggestions
ConfirmNext ==
    \/ \E a \in ActionIds : SuggestionExpires(a)
    \/ \E w \in Writers : Arrives(w) /\ ConfirmRead(w)
    \/ \E w \in Writers : ConfirmCommit(w)

SpecConfirm == ConfirmInit /\ [][ConfirmNext]_vars

(***************************************************************************)
(* The range pipeline of export_project (export.py 49-53, 66): inputs are  *)
(* drawn at Init, then calculate_deleted_ranges and calculate_kept_ranges  *)
(* are applied.  rpc tells which results have been computed; a result not  *)
(* computed yet reads as the empty list (the duration as 0).               *)
(***************************************************************************)
\* operations that reference the scenario transcript: known ids 1 and 2, the
\* unknown id 3, word indices in and out of range, the transcript's silences,
\* timeline operations as ai_edit_video stores them, and an operation of a
\* type the code does not know
ReferenceOps ==
    {DeleteSegments(<<>>), Timeline(<<>>), Timeline(<<Clip(1, 0, 2, 1, 1)>>),
     Operation("trim", <<1>>, <<TimeRange(2, 5)>>, <<>>, <<>>)}
    \cup {DeleteSegments(<<i>>) : i \in {1, 2, 3}}
    \cup {DeleteSegments(<<3, 2>>), DeleteWords(<<WordsItem(2, <<3, 2>>)>>)}
    \cup {DeleteSilences(<<r>>) : r \in {TimeRange(2, 5), TimeRange(8, 10)}}
    \cup {DeleteWords(<<WordsItem(1, <<k>>)>>) : k \in {-1, 0, 1, 2}}
    \cup {DeleteWords(<<WordsItem(2, <<k>>)>>) : k \in {-1, 0, 2, 3}}
    \cup {DeleteWords(<<WordsItem(3, <<0>>)>>)}

\* durations handed to calculate_kept_ranges: float(transcript.duration or 0)
Durations == Times \cup {10}

\* an EDL of one delete_silences operation over the grid, no transcript segments
InitSilences ==
    /\ segments = <<>>
    /\ \E trs \in SeqsUpTo(Ranges, MaxRanges) : operations = <<DeleteSilences(trs)>>

\* an EDL of operations that reference the scenario transcript
InitReferences ==
    /\ segments = ScenarioSegments
    /\ operations \in SeqsUpTo(ReferenceOps, MaxOps)

RangeInit ==
    /\ EdlIdle
    /\ AgentIdle
    /\ ExportIdle
    /\ RenderIdle
    /\ SilenceIdle
    /\ TaskIdle
    /\ InitSilences \/ InitReferences
    /\ total_duration = 0
    /\ deleted_ranges = <<>>
    /\ remerged = <<>>
    /\ kept_ranges = <<>>
    /\ rpc = "input"

\* export.py 53: deleted_ranges = calculate_deleted_ranges(segments, operations)
CalcDeleted ==
    /\ rpc = "input"
    /\ deleted_ranges' = calculate_deleted_ranges(segments, operations)
    /\ rpc' = "deleted"
    /\ UNCHANGED <<segments, operations, total_duration, remerged, kept_ranges>>
    /\ UNCHANGED <<edlVars, agentVars, exportVars, renderVars, silenceVars, taskVars>>

\* the merged list fed back as the time_ranges of one delete_silences operation
Remerge ==
    /\ rpc = "deleted"
    /\ remerged' = calculate_deleted_ranges(segments, <<DeleteSilences(deleted_ranges)>>)
    /\ rpc' = "remerged"
    /\ UNCHANGED <<segments, operations, total_duration, deleted_ranges, kept_ranges>>
    /\ UNCHANGED <<edlVars, agentVars, exportVars, renderVars, silenceVars, taskVars>>

\* generate_*: kept_ranges = calculate_kept_ranges(duration, deleted_ranges)
CalcKept ==
    /\ rpc = "deleted"
    /\ \E duration \in Durations :
        /\ total_duration' = duration
        /\ kept_ranges' = calculate_kept_ranges(duration, deleted_ranges)
    /\ rpc' = "kept"
    /\ UNCHANGED <<segments, operations, deleted_ranges, remerged>>
    /\ UNCHANGED <<edlVars, agentVars, exportVars, renderVars, silenceVars, taskVars>>

\* calculate_kept_ranges applied to the ranges as the operations emit them,
\* before any merge
CalcKeptUnmerged ==
    /\ rpc = "deleted"
    /\ \E duration \in Durations :
        /\ total_duration' = duration
        /\ kept_ranges' = calculate_kept_ranges(duration,
                                                EmitOperations(segments, operations))
    /\ rpc' = "kept_unmerged"
    /\ UNCHANGED <<segments, operations, deleted_ranges, remerged>>
    /\ UNCHANGED <<edlVars, agentVars, exportVars, renderVars, silenceVars, taskVars>>

RangeNext == CalcDeleted \/ Remerge \/ CalcKept \/ CalcKeptUnmerged

SpecRange == RangeInit /\ [][RangeNext]_vars

(***************************************************************************)
(* The generators of export.py applied to inputs drawn at Init: either the *)
(* arguments export_project hands to a generator (export.py 60-88), or an  *)
(* argument of seconds_to_timecode.                                        *)
(***************************************************************************)

\* times of cuts: frame times and whole seconds
CutTimes == {0, FrameTime(25, 24), Seconds(5), Seconds(8), Seconds(10)}

CutRanges == {TimeRange(s, e) : s, e \in CutTimes} \ {TimeRange(t, t) : t \in CutTimes}

\* float(transcript.duration or 0): no duration, ten seconds, over an hour
ExportDurations == {0, Seconds(10), Seconds(3661) + FrameTime(7, 24)}

\* arguments of seconds_to_timecode: every tick of the first two seconds, and
\* times around a full minute and a full hour
SecondsInputs ==
    0..Seconds(2)
    \cup {Seconds(59) + FrameTime(29, 30), Seconds(60), Seconds(3599) + FrameTime(23, 24),
          Seconds(3600), Seconds(3661) + FrameTime(7, 24), Seconds(7322) + FrameTime(9, 30)}

\* export_project has computed deleted_ranges and is about to call a generator
InitGenerator ==
    /\ \E trs \in SeqsUpTo(CutRanges, MaxCuts) : operations = <<DeleteSilences(trs)>>
    /\ deleted_ranges = calculate_deleted_ranges(segments, operations)
    /\ total_duration \in ExportDurations
    /\ seconds = 0
    /\ xpc = "export"

\* seconds_to_timecode is about to be called
InitSeconds ==
    /\ operations = <<>>
    /\ deleted_ranges = <<>>
    /\ total_duration = 0
    /\ seconds \in SecondsInputs
    /\ xpc = "seconds"

ExportInit ==
    /\ EdlIdle
    /\ AgentIdle
    /\ RenderIdle
    /\ SilenceIdle
    /\ TaskIdle
    /\ segments = <<>>
    /\ remerged = <<>>
    /\ kept_ranges = <<>>
    /\ rpc = "deleted"
    /\ frame_rate \in FrameRates
    /\ InitGenerator \/ InitSeconds
    /\ timecode = Timecode(0, 0, 0, 0)
    /\ edl_file = <<>>
    /\ premiere_xml = NoSequence
    /\ fcpxml = <<>>

\* generate_edl_file (export.py 303-337)
GenerateEdlFile ==
    /\ xpc = "export"
    /\ kept_ranges' = calculate_kept_ranges(total_duration, deleted_ranges)
    /\ edl_file' = generate_edl_file(total_duration, deleted_ranges, frame_rate)
    /\ xpc' = "edl"
    /\ UNCHANGED <<segments, operations, total_duration, deleted_ranges, remerged, rpc>>
    /\ UNCHANGED <<frame_rate, seconds, timecode, premiere_xml, fcpxml>>
    /\ UNCHANGED <<edlVars, agentVars, renderVars, silenceVars, taskVars>>

\* generate_premiere_xml (export.py 246-300)
GeneratePremiereXml ==
    /\ xpc = "export"
    /\ kept_ranges' = calculate_kept_ranges(total_duration, deleted_ranges)
    /\ premiere_xml' = generate_premiere_xml(total_duration, deleted_ranges, frame_rate)
    /\ xpc' = "premiere_xml"
    /\ UNCHANGED <<segments, operations, total_duration, deleted_ranges, remerged, rpc>>
    /\ UNCHANGED <<frame_rate, seconds, timecode, edl_file, fcpxml>>
    /\ UNCHANGED <<edlVars, agentVars, renderVars, silenceVars, taskVars>>

\* generate_fcpxml (export.py 167-243)
GenerateFcpxml ==
    /\ xpc = "export"
    /\ kept_ranges' = calculate_kept_ranges(total_duration, deleted_ranges)
    /\ fcpxml' = generate_fcpxml(total_duration, deleted_ranges, frame_rate)
    /\ xpc' = "fcpxml"
    /\ UNCHANGED <<segments, operations, total_duration, deleted_ranges, remerged, rpc>>
    /\ UNCHANGED <<frame_rate, seconds, timecode, edl_file, premiere_xml>>
    /\ UNCHANGED <<edlVars, agentVars, renderVars, silenceVars, taskVars>>

\* seconds_to_timecode (export.py 359-366)
SecondsToTimecode ==
    /\ xpc = "seconds"
    /\ timecode' = seconds_to_timecode(seconds, frame_rate)
    /\ xpc' = "timecode"
    /\ UNCHANGED <<frame_rate, seconds, edl_file, premiere_xml, fcpxml>>
    /\ UNCHANGED <<rangeVars, edlVars, agentVars, renderVars, silenceVars, taskVars>>

ExportNext == GenerateEdlFile \/ GeneratePremiereXml \/ GenerateFcpxml \/ SecondsToTimecode

SpecExport == ExportInit /\ [][ExportNext]_vars

(***************************************************************************)
(* _render_video (ai_agent.py 368-456) called by several runs of           *)
(* AIAgent.run for the same project, each in its own request.  The runs    *)
(* share the directory renders/<project_id> and the clock; a run names its *)
(* output after the clock and then has ffmpeg write it.  The clock is      *)
(* counted in half seconds, so that two moments of one second differ.      *)
(***************************************************************************)
\* int(time.time())
WholeSecond(t) == t \div 2

\* time passes
Tick ==
    /\ clock < 2 * MaxClock
    /\ clock' = clock + 1
    /\ UNCHANGED renders
    /\ UNCHANGED <<rangeVars, edlVars, agentVars, exportVars, silenceVars, taskVars>>

\* ai_agent.py 396-398: output_filename = f"output_{int(time.time())}.mp4";
\* the path is the directory of the project joined with this name
NameOutput(r) ==
    /\ renders[r].pc = "idle"
    /\ renders' = [renders EXCEPT ![r] = [pc |-> "named", output_path |-> WholeSecond(clock)]]
    /\ UNCHANGED clock
    /\ UNCHANGED <<rangeVars, edlVars, agentVars, exportVars, silenceVars, taskVars>>

\* ai_agent.py 429-445: ffmpeg -y ... output_path, which either writes the
\* file (overwriting one of that name) or exits with an error
Transcode(r) ==
    /\ renders[r].pc = "named"
    /\ \E outcome \in {"written", "ffmpeg_error"} :
           renders' = [renders EXCEPT ![r].pc = outcome]
    /\ UNCHANGED clock
    /\ UNCHANGED <<rangeVars, edlVars, agentVars, exportVars, silenceVars, taskVars>>

RenderInit == RangeIdle /\ EdlIdle /\ AgentIdle /\ ExportIdle /\ RenderIdle /\ SilenceIdle
        /\ TaskIdle

RenderNext ==
    \/ Tick
    \/ \E r \in Runs : NameOutput(r)
    \/ \E r \in Runs : Transcode(r)

SpecRender == RenderInit /\ [][RenderNext]_vars

(***************************************************************************)
(* TranscriptionService._detect_silences (transcription.py 231-285).  The  *)
(* times are counted in units of 1/200 second, so that a time of the       *)
(* transcriber (a multiple of 1/8 second here) and its rounding to two     *)
(* decimals are both whole numbers.                                        *)
(***************************************************************************)
\* min_silence_duration: float = 0.5
min_silence_duration == 100

\* round(x, 2) of a time x >= 0: the nearest hundredth of a second, a tie
\* going to the even hundredth
Round2(x) ==
    LET hundredths == x \div 2
    IN  IF x % 2 = 0 THEN x
        ELSE IF hundredths % 2 = 0 THEN 2 * hundredths
        ELSE 2 * hundredths + 2

Silence(s, e, d) == [start |-> s, end |-> e, duration |-> d]

\* transcription.py 264-275: the silences between consecutive sorted segments
RECURSIVE GapSilences(_, _)
GapSilences(sorted_segments, i) ==
    IF i >= Len(sorted_segments) THEN <<>>
    ELSE LET current_end == sorted_segments[i].end
             next_start == sorted_segments[i + 1].start
             gap == next_start - current_end
         IN  (IF gap >= min_silence_duration
              THEN <<Silence(Round2(current_end), Round2(next_start), Round2(gap))>>
              ELSE <<>>)
             \o GapSilences(sorted_segments, i + 1)

detect_silences(segs, duration) ==
    IF segs = <<>> THEN <<>>
    ELSE LET sorted_segments == SortByStart(segs)
             first_start == sorted_segments[1].start
             last_end == sorted_segments[Len(sorted_segments)].end
         IN  (IF first_start >= min_silence_duration
              THEN <<Silence(0, Round2(first_start), Round2(first_start))>>
              ELSE <<>>)
             \o GapSilences(sorted_segments, 1)
             \o (IF duration - last_end >= min_silence_duration
                 THEN <<Silence(Round2(last_end), Round2(duration),
                                Round2(duration - last_end))>>
                 ELSE <<>>)

\* times of the transcriber: 0, 0.5, 0.625, 1 and 1.5 seconds
SegmentTimes == {0, 100, 125, 200, 300}

\* segments of the transcriber, which may overlap and nest
RawSegments ==
    {TimeRange(p[1], p[2]) : p \in {q \in SegmentTimes \X SegmentTimes : q[1] < q[2]}}

\* len(audio) / 16000: 1.5 and 1.875 seconds, at or after the end of every segment
AudioDurations == {300, 375}

SilenceInit ==
    /\ RangeIdle
    /\ EdlIdle
    /\ AgentIdle
    /\ ExportIdle
    /\ RenderIdle
    /\ TaskIdle
    /\ result_segments \in SeqsUpTo(RawSegments, MaxSegments)
    /\ audio_duration \in AudioDurations
    /\ silences = <<>>
    /\ spc = "input"

\* transcription.py 166: silences = cls._detect_silences(segments, duration)
DetectSilences ==
    /\ spc = "input"
    /\ silences' = detect_silences(result_segments, audio_duration)
    /\ spc' = "detected"
    /\ UNCHANGED <<result_segments, audio_duration>>
    /\ UNCHANGED <<rangeVars, edlVars, agentVars, exportVars, renderVars, taskVars>>

SilenceNext == DetectSilences

SpecSilence == SilenceInit /\ [][SilenceNext]_vars

(***************************************************************************)
(* One export from create_export (exports.py 18-64) through the attempts   *)
(* of the Celery task export_project (export.py 23-111).  An attempt is    *)
(* two commits: the row becomes processing, then completed or failed; a    *)
(* failed attempt is retried until self.request.retries reaches            *)
(* max_retries.                                                            *)
(***************************************************************************)
\* @celery_app.task(bind=True, max_retries=3)
max_retries == 3

\* class ExportFormat: every format create_export accepts
ExportFormat == Formats \cup {"mp4"}

\* the suffix of output_path (export.py 61, 71, 81)
Suffix(format) == IF format = "premiere_xml" THEN "xml" ELSE format

\* export.py 93-99 on the row
CompletedRow(row) ==
    [row EXCEPT !.status = "completed",
                !.file_url = "/storage/exports/project/export." \o Suffix(row.format),
                !.file_key = "exports/project/export." \o Suffix(row.format),
                !.expires_at = "utcnow + 7 days"]

\* mutant of FailedRow: the message is stored, the status is left as it is
FailedRowStatusKept(row, message) == [row EXCEPT !.error_message = message]

\* export.py 104-109 on the row: str(e) of the exception
FailedRow(row, message) == [row EXCEPT !.status = "failed", !.error_message = message]

\* create_export (exports.py 18-64): a pending row and a queued task, for a
\* project that is ready
CreateExport ==
    /\ tpc = "none"
    /\ project_status = "READY"
    /\ \E format \in ExportFormat :
           export' = ExportRow("pending", format, "None", "None", "None", "None")
    /\ tpc' = "queued"
    /\ UNCHANGED retries
    /\ UNCHANGED <<rangeVars, edlVars, agentVars, exportVars, renderVars, silenceVars>>

\* export.py 28-33: an attempt begins and commits the status processing
TaskStarts ==
    /\ tpc = "queued"
    /\ export' = [export EXCEPT !.status = "processing"]
    /\ tpc' = "running"
    /\ UNCHANGED retries
    /\ UNCHANGED <<rangeVars, edlVars, agentVars, exportVars, renderVars, silenceVars>>

\* export.py 103-111: the except clause, then self.retry, which queues the
\* task again while retries < max_retries and gives up after that
TaskFails(message) ==
    /\ export' = FailedRow(export, message)
    /\ IF retries < max_retries
       THEN tpc' = "queued" /\ retries' = retries + 1
       ELSE tpc' = "gave_up" /\ UNCHANGED retries

\* export.py 35-111: the rest of the attempt.  The generator writes the file
\* or raises, e.g. for a full disk
TaskEnds ==
    /\ tpc = "running"
    /\ IF project_status = "NOT_FOUND" \/ transcript_rows = <<>>
       THEN /\ TaskFails("Project or transcript not found")
            /\ UNCHANGED <<rangeVars, exportVars>>
       ELSE IF export.format \notin Formats
       THEN /\ TaskFails("Unsupported format: " \o export.format)
            /\ UNCHANGED <<rangeVars, exportVars>>
       ELSE \E written \in BOOLEAN :
                IF written
                THEN /\ \E latest \in LatestChoices(edls), rate \in FrameRates :
                            RunsGenerator(latest, export.format, rate)
                     /\ export' = CompletedRow(export)
                     /\ tpc' = "succeeded"
                     /\ UNCHANGED retries
                ELSE /\ TaskFails("[Errno 28] No space left on device")
                     /\ UNCHANGED <<rangeVars, exportVars>>
    /\ UNCHANGED <<edlVars, agentVars, renderVars, silenceVars>>

\* a ready project with or without transcript, with no EDL, one, or two
TaskInit ==
    /\ RangeIdle
    /\ AgentIdle
    /\ ExportIdle
    /\ RenderIdle
    /\ SilenceIdle
    /\ TaskIdle
    /\ project_status \in {"PROCESSING", "READY"}
    /\ transcript_rows \in {<<>>, <<[segments |-> ScenarioSegments, duration |-> 10]>>}
    /\ edls \in {<<>>,
                 <<EdlRow(1, 1, <<DeleteSegments(<<1>>)>>)>>,
                 <<EdlRow(1, 1, <<DeleteSegments(<<1>>)>>),
                   EdlRow(2, 2, <<DeleteSegments(<<1>>), DeleteSegments(<<2>>)>>)>>}
    /\ pending_suggestions = [a \in ActionIds |-> NoSuggestion]
    /\ requests = [w \in Writers |-> IdleRequest]

TaskNext == CreateExport \/ TaskStarts \/ TaskEnds

SpecTask == TaskInit /\ [][TaskNext]_vars

(***************************************************************************)
(* Properties of the range algebra.                                        *)
(***************************************************************************)
\* the grid seconds [t, t+1) that a range covers
Cells(r) == r.start..(r.end - 1)

CellsOf(rs) == UNION {Cells(rs[i]) : i \in 1..Len(rs)}

\* how many ranges of a list cover second t
Covering(rs, t) == Cardinality({i \in 1..Len(rs) : t \in Cells(rs[i])})

WithinDuration(rs) ==
    \A i \in 1..Len(rs) : 0 <= rs[i].start /\ rs[i].end <= total_duration

\* C1: the kept ranges and the merged deleted ranges cover [0, total_duration]
\* exactly: every second of it lies in exactly one kept or merged deleted
\* range, and no range returned by calculate_kept_ranges reaches outside
\* [0, total_duration].  (The claim also bounds the deleted ranges, which are
\* the function's input; the formula states what it says of the output.)
C1_KeptAndDeletedPartition ==
    rpc = "kept" =>
        /\ \A t \in 0..(total_duration - 1) :
               Covering(kept_ranges, t) + Covering(deleted_ranges, t) = 1
        /\ WithinDuration(kept_ranges)

\* the ranges emitted by the operations before the merge
Emitted == EmitOperations(segments, operations)

\* the emitted ranges that start inside the merged range m
MergedInto(m) == {k \in 1..Len(Emitted) :
                      m.start <= Emitted[k].start /\ Emitted[k].start <= m.end}

\* C2: calculate_deleted_ranges returns ranges sorted by start, consecutive
\* ranges r, s satisfy r.end < s.start (overlapping and touching ranges are
\* merged), and a merged range ends at the maximum end of the ranges merged
\* into it.
C2_MergedSortedDisjoint ==
    rpc # "input" =>
        /\ \A i \in 1..(Len(deleted_ranges) - 1) :
               /\ deleted_ranges[i].start <= deleted_ranges[i + 1].start
               /\ deleted_ranges[i].end < deleted_ranges[i + 1].start
        /\ \A i \in 1..Len(deleted_ranges) :
               LET m == deleted_ranges[i]
               IN  /\ MergedInto(m) # {}
                   /\ \E k \in MergedInto(m) : Emitted[k].start = m.start
                   /\ \E k \in MergedInto(m) : Emitted[k].end = m.end
                   /\ \A k \in MergedInto(m) : Emitted[k].end <= m.end
        /\ \A k \in 1..Len(Emitted) :
               \E i \in 1..Len(deleted_ranges) : k \in MergedInto(deleted_ranges[i])

\* C2 witness: two emitted ranges that merely touch were merged into one
C2_Witness ==
    /\ rpc = "deleted"
    /\ \E j, k \in 1..Len(Emitted) :
           /\ Emitted[j].end = Emitted[k].start
           /\ \E i \in 1..Len(deleted_ranges) :
                  /\ deleted_ranges[i].start = Emitted[j].start
                  /\ deleted_ranges[i].end = Emitted[k].end

\* C3: merging is idempotent: the returned list, fed back as the time_ranges of
\* one delete_silences operation, comes back unchanged.
C3_MergeIdempotent ==
    rpc = "remerged" => remerged = deleted_ranges

\* C3 witness: a list that the first merge changed is stable under the second
C3_Witness ==
    /\ rpc = "remerged"
    /\ Len(deleted_ranges) >= 2
    /\ Len(Emitted) > Len(deleted_ranges)
    /\ remerged = deleted_ranges

\* the seconds the claim expects deleted: known segments, in-range words of
\* known segments, and silence ranges verbatim
ExpectedDeleted ==
    UNION {
        IF operations[o].type = "delete_segments" THEN
            UNION {Cells(segments[g]) :
                       g \in {g \in 1..Len(segments) :
                                  \E n \in 1..Len(operations[o].segment_ids) :
                                      operations[o].segment_ids[n] = segments[g].id}}
        ELSE IF operations[o].type = "delete_silences" THEN
            CellsOf(operations[o].time_ranges)
        ELSE IF operations[o].type = "delete_words" THEN
            UNION {Cells(segments[gw[1]].words[gw[2] + 1]) :
                       gw \in {gw \in (1..Len(segments)) \X (0..MaxTime + 7) :
                                   /\ gw[2] <= Len(segments[gw[1]].words) - 1
                                   /\ \E n \in 1..Len(operations[o].items) :
                                          /\ operations[o].items[n].segment_id
                                                 = segments[gw[1]].id
                                          /\ \E x \in 1..Len(operations[o].items[n].word_indices) :
                                                 operations[o].items[n].word_indices[x] = gw[2]}}
        ELSE {}
        : o \in 1..Len(operations)}

\* C4: the time covered by the result of calculate_deleted_ranges is exactly
\* the union of the referenced known segments, the referenced in-range words
\* and the silence ranges; unknown ids and out-of-range indices add nothing.
\* Scenario: segments 1 = [0,2], 2 = [5,8], delete_segments [2], duration 10
\* gives deleted [{5,8}] and kept [{0,5},{8,10}].
C4_DeletedIsUnionOfReferences ==
    /\ rpc # "input" => CellsOf(deleted_ranges) = ExpectedDeleted
    /\ (/\ rpc # "input"
        /\ segments = ScenarioSegments
        /\ operations = <<DeleteSegments(<<2>>)>>)
       => /\ deleted_ranges = <<TimeRange(5, 8)>>
          /\ (rpc = "kept" /\ total_duration = 10)
             => kept_ranges = <<TimeRange(0, 5), TimeRange(8, 10)>>

\* C4 witness: an unknown segment id and a word index equal to len(words) were
\* ignored next to a word reference that resolved
C4_Witness ==
    /\ rpc = "deleted"
    /\ operations = <<DeleteSegments(<<3>>),
                      DeleteWords(<<WordsItem(2, <<3, 2>>)>>)>>
    /\ deleted_ranges = <<TimeRange(7, 8)>>

LatestVersion(rows) == CurrentVersion(rows, CHOOSE i \in LatestChoices(rows) : TRUE)

IsPrefix(a, b) == Len(a) <= Len(b) /\ SubSeq(b, 1, Len(a)) = a

\* request w returns to its caller in this step
Returns(w, kind) ==
    /\ requests[w].pc # "done"
    /\ requests'[w].pc = "done"
    /\ requests'[w].kind = kind

\* this step stores one new row with the version and operations of request w
StoresRow(w) ==
    /\ edls' = Append(edls, EdlRow(Len(edls) + 1, requests'[w].version,
                                   requests'[w].operations))
    /\ LatestVersion(edls') = requests'[w].version

\* C6 as stated: with latest version c, save_edl with version c+1 stores a new
\* EDL and the latest version becomes c+1; with any other version it answers
\* VERSION_CONFLICT and the rows are unchanged.
C6_SaveEdlVersionCheck ==
    [][\A w \in Writers :
          (Returns(w, "save_edl") /\ project_status # "NOT_FOUND") =>
              IF requests'[w].version = LatestVersion(edls) + 1
              THEN requests'[w].response = "OK" /\ StoresRow(w)
              ELSE requests'[w].response = "VERSION_CONFLICT" /\ edls' = edls]_vars

\* the request would fail the segment-id validation of save_edl
FailsValidation(req) ==
    /\ transcript_rows # <<>>
    /\ \E o \in 1..Len(req.operations) :
           /\ req.operations[o].type = "delete_segments"
           /\ \E n \in 1..Len(req.operations[o].segment_ids) :
                  \A g \in 1..Len(transcript_rows[1].segments) :
                      transcript_rows[1].segments[g].id # req.operations[o].segment_ids[n]

\* C6 amended: with latest version c, save_edl with version c+1 stores a new
\* EDL and the latest version becomes c+1, unless the project has a transcript
\* and a delete_segments operation names a segment id that is not in it: then
\* it answers INVALID_SEGMENT_ID and the rows are unchanged.  With any other
\* version it answers VERSION_CONFLICT and the rows are unchanged.
C6_SaveEdlVersionCheckThenValidation ==
    [][\A w \in Writers :
          (Returns(w, "save_edl") /\ project_status # "NOT_FOUND") =>
              IF requests'[w].version # LatestVersion(edls) + 1
              THEN requests'[w].response = "VERSION_CONFLICT" /\ edls' = edls
              ELSE IF FailsValidation(requests'[w])
              THEN requests'[w].response = "INVALID_SEGMENT_ID" /\ edls' = edls
              ELSE requests'[w].response = "OK" /\ StoresRow(w)]_vars

\* C6 witness: one save was stored as version 1 and a later save that named a
\* version other than 2 was refused
C6_Witness ==
    \E v, w \in Writers :
        /\ requests[v].kind = "save_edl" /\ requests[v].response = "OK"
        /\ requests[w].kind = "save_edl" /\ requests[w].response = "VERSION_CONFLICT"
        /\ requests[w].version # 2
        /\ Len(edls) = 1
        /\ edls[1].version = 1

\* C7: no two stored EDL rows of the project carry the same version, under any
\* interleaving of the writers.
C7_NoDuplicateVersions ==
    \A i, j \in 1..Len(edls) : i # j => edls[i].version # edls[j].version

\* C8: the log is append-only: the operations of every stored version have the
\* operations of the version that was the latest before it as a prefix.
C8_AppendOnly ==
    \A k \in 2..Len(edls) :
        \A i \in LatestRows(SubSeq(edls, 1, k - 1)) :
            IsPrefix(edls[i].operations, edls[k].operations)

\* the segment ids that the operations reference, in delete_segments and in
\* the items of delete_words
ReferencedSegmentIds(ops) ==
    UNION {{ops[o].segment_ids[n] : n \in 1..Len(ops[o].segment_ids)}
           \cup {ops[o].items[n].segment_id : n \in 1..Len(ops[o].items)}
           : o \in {o \in 1..Len(ops) : ops[o].type \in {"delete_segments", "delete_words"}}}

\* C9: a direct save whose operations reference a segment id that is not in
\* the project's transcript is rejected and stores no version.  (Stated for a
\* project that has a transcript.)
C9_UnknownSegmentRejected ==
    \A w \in Writers :
        (/\ requests[w].kind = "save_edl"
         /\ requests[w].pc = "done"
         /\ transcript_rows # <<>>
         /\ ~(ReferencedSegmentIds(requests[w].operations)
                  \subseteq ValidSegmentIds(transcript_rows[1])))
        => /\ requests[w].response # "OK"
           /\ \A i \in 1..Len(edls) : edls[i].operations # requests[w].operations

(***************************************************************************)
(* Properties of AIAgent.run.                                              *)
(***************************************************************************)
\* the latest answer of the model is a message without a tool call
NoToolCall(r) == r.kind = "message" /\ r.tool_calls = 0

\* C10: whenever a model call returns no tool call, at any iteration 1..10,
\* the loop ends right after that call and run returns the model's text as
\* the reply with finished = false, without a further model call and without
\* a transcoder invocation; on iteration 1 that is exactly one model call and
\* zero transcoder invocations.
C10_NoToolCallEndsRun ==
    [][/\ (apc = "loop" /\ iteration' = iteration + 1 /\ NoToolCall(response')) =>
              /\ apc' = "after_loop"
              /\ finished' = FALSE
              /\ transcoder_calls' = transcoder_calls
       /\ (apc = "after_loop" /\ NoToolCall(response)) =>
              /\ apc' = "returned"
              /\ final_reply' = ContentOrDone(response.content)
              /\ finished' = FALSE
              /\ model_calls' = model_calls
              /\ transcoder_calls' = transcoder_calls
              /\ iteration' = 1 => (model_calls' = 1 /\ transcoder_calls' = 0)]_vars

\* the step is the handling of a create_timeline call with these clips
CreatesTimeline(clips) ==
    ToolCall([name |-> "create_timeline", clips |-> clips, summary |-> ""], "not_called")

\* C11: there is one current timeline: a create_timeline call sets it to the
\* resolution of the clips of that call only (replacing, never extending, the
\* earlier timeline), and no other step of run changes it.
C11_TimelineReplacedByCreateOnly ==
    [][/\ \A clips \in ToolClipLists :
              CreatesTimeline(clips) => timeline' = _build_timeline(clips, run_segments)
       /\ timeline' # timeline => \E clips \in ToolClipLists : CreatesTimeline(clips)]_vars

\* C11 witness: in a later iteration a create_timeline call has just set a
\* timeline of one custom clip
C11_Witness ==
    /\ apc = "tools"
    /\ iteration >= 2
    /\ tool_results = <<[success |-> TRUE, result |-> "timeline_created"]>>
    /\ timeline = <<Clip(Missing, 1, 3, 1, 1)>>

\* the step is the handling of a finish_editing call that reaches
\* _render_video, which ends with this outcome
FinishRenders(outcome) ==
    \E tool_call \in ToolCalls :
        tool_call.name = "finish_editing" /\ ToolCall(tool_call, outcome)

\* C12: when finish_editing is requested with a non-empty timeline and the
\* render succeeds, the loop ends in that iteration: finished is true,
\* output_video is the path the render returned, and run returns them without
\* a further model call.
C12_RenderSuccessEndsRun ==
    [][/\ FinishRenders("ok") =>
              /\ timeline # <<>>
              /\ apc' = "after_loop"
              /\ finished' = TRUE
              /\ output_video' = RenderReturn("ok")
       /\ (apc = "after_loop" /\ finished) =>
              /\ apc' = "returned"
              /\ finished' = TRUE
              /\ output_video' = output_video
              /\ model_calls' = model_calls]_vars

\* C12 witness: run has returned a finished result with the rendered path
C12_Witness ==
    /\ apc = "returned"
    /\ finished
    /\ output_video = RenderReturn("ok")
    /\ timeline # <<>>
    /\ transcoder_calls >= 1

\* C13: when finish_editing is requested with a non-empty timeline and the
\* transcoder exits non-zero, the loop ends unsuccessfully: no further model
\* call and no further transcoder invocation happen, and the result has
\* finished = false and output_video = None.
C13_RenderFailureEndsRun ==
    [][/\ FinishRenders("ffmpeg_error") =>
              /\ apc' = "after_loop"
              /\ finished' = FALSE
              /\ output_video' = "None"
       /\ (apc = "after_loop" /\ ~finished /\ tool_results # <<>>
                /\ tool_results[Len(tool_results)].result = "render_failed") =>
              /\ apc' = "returned"
              /\ model_calls' = model_calls
              /\ transcoder_calls' = transcoder_calls]_vars

\* the step is the handling of a finish_editing call
FinishEditing ==
    \E tool_call \in ToolCalls, outcome \in Outcomes :
        tool_call.name = "finish_editing" /\ ToolCall(tool_call, outcome)

\* C14: when finish_editing is requested while the timeline is empty, no
\* transcoder invocation is made, an error result is added to the tool results
\* and the loop goes on: the results of the iteration are appended to the
\* conversation after the assistant message, and the next iteration makes its
\* model call if the cap is not reached.
C14_FinishOnEmptyTimelineContinues ==
    [][/\ (FinishEditing /\ timeline = <<>>) =>
              /\ transcoder_calls' = transcoder_calls
              /\ tool_results' = Append(tool_results,
                     [success |-> FALSE, result |-> "timeline_empty"])
              /\ apc' = "tools"
              /\ finished' = FALSE
              /\ output_video' = "None"
       /\ (apc = "tools" /\ apc' = "loop") =>
              messages_len' = messages_len + 1 + Len(tool_results)
       /\ (apc = "loop" /\ iteration < max_iterations) =>
              /\ iteration' = iteration + 1
              /\ model_calls' = model_calls + 1]_vars

\* C14 witness: a finish_editing call on an empty timeline has been answered
\* with the error result and the loop is still in its iteration
C14_Witness ==
    /\ apc = "tools"
    /\ timeline = <<>>
    /\ tool_results # <<>>
    /\ tool_results[Len(tool_results)] = [success |-> FALSE, result |-> "timeline_empty"]
    /\ transcoder_calls = 0

\* the most steps one iteration takes: the model call, the tool calls, the
\* appending of the results
IterationSteps == MaxToolCalls + 2

\* an upper bound of the number of steps run still takes from this state
StepsLeft ==
    CASE apc = "idle" -> 3 + max_iterations * IterationSteps
      [] apc = "loop" -> 2 + (max_iterations - iteration) * IterationSteps
      [] apc = "tools" -> 3 + (max_iterations - iteration) * IterationSteps
                            + (response.tool_calls - Len(tool_results))
      [] apc = "after_loop" -> 1
      [] OTHER -> 0

\* C15: run always terminates and makes at most 10 model calls: every step
\* lowers a bound of the steps that are left, and the bound never goes below
\* zero.  When the loop test fails after 10 iterations without a terminal
\* outcome, run returns the max-iterations reply with finished = false and
\* output_video = None.
C15_TerminatesWithinTenModelCalls ==
    [][/\ StepsLeft' < StepsLeft
       /\ StepsLeft' >= 0
       /\ model_calls' <= max_iterations
       /\ (apc = "loop" /\ iteration >= max_iterations) =>
              /\ apc' = "after_loop"
              /\ model_calls' = model_calls
              /\ finished' = FALSE
              /\ output_video' = "None"
       /\ (apc = "after_loop" /\ iteration >= max_iterations) =>
              /\ apc' = "returned"
              /\ final_reply' = "max_iterations_reached"
              /\ finished' = finished
              /\ output_video' = output_video]_vars

\* C15 witness: ten iterations were completed, each with the results of its
\* tool calls appended after 12 messages of start, and run returned the
\* max-iterations reply
C15_Witness ==
    /\ apc = "returned"
    /\ model_calls = max_iterations
    /\ messages_len >= 12 + 2 * max_iterations
    /\ final_reply = "max_iterations_reached"
    /\ ~finished
    /\ output_video = "None"

\* the step is the handling of a tool call whose arguments do not parse
MalformedArguments ==
    ToolCall([name |-> "malformed_arguments", clips |-> <<>>, summary |-> ""], "not_called")

\* C16: a model-call error or malformed tool arguments, at any iteration, end
\* the loop at once: run returns an error reply with finished = false, without
\* a further model call and without a render after the failure.
C16_FailureEndsRunWithErrorReply ==
    [][/\ (apc = "loop" /\ iteration' = iteration + 1 /\ response'.kind = "error") =>
              apc' = "after_loop" /\ final_reply' = "error"
       /\ MalformedArguments =>
              apc' = "after_loop" /\ final_reply' = "error"
       /\ (apc = "after_loop" /\ final_reply = "error") =>
              /\ apc' = "returned"
              /\ final_reply' = "error"
              /\ finished' = FALSE
              /\ model_calls' = model_calls
              /\ transcoder_calls' = transcoder_calls]_vars

\* C17: no exception leaves run: for every input and every behaviour of the
\* model and the transcoder run returns a result, also when building the
\* initial messages fails.
C17_RunNeverRaises == apc # "raised"

RECURSIVE SumRepeat(_)
\* the sum of repeat over the clips of a timeline
SumRepeat(tl) == IF tl = <<>> THEN 0 ELSE Head(tl).repeat + SumRepeat(Tail(tl))

\* C18: when the model calls create_timeline and then, in the next iteration,
\* finish_editing once and the render succeeds, run makes exactly one
\* transcoder invocation, and the render plan of that invocation has as many
\* trim instances as the sum of repeat over the clips of the timeline.
C18_OneRenderWithRepeatSumInstances ==
    [][(FinishRenders("ok") /\ iteration = 2 /\ transcoder_calls = 0) =>
           /\ transcoder_calls' = 1
           /\ Len(RenderPlan(timeline)) = SumRepeat(timeline)]_vars

\* the number of instances that the clips before clip c call for
RepeatsBefore(tl, c) == SumRepeat(SubSeq(tl, 1, c - 1))

\* C19: the render plan of a timeline holds, for each clip, exactly repeat
\* instances with the clip's start and end; the instances stand in clip order
\* with the repeats of a clip next to each other, and their indices are
\* 0..N-1, each used once, N being the number of instances.
C19_PlanExpandsClipsInOrder ==
    LET plan == RenderPlan(timeline)
    IN  /\ Len(plan) = SumRepeat(timeline)
        /\ \A k \in 1..Len(plan) : plan[k].idx = k - 1
        /\ \A c \in 1..Len(timeline) :
               \A r \in 1..timeline[c].repeat :
                   /\ plan[RepeatsBefore(timeline, c) + r].start = timeline[c].start
                   /\ plan[RepeatsBefore(timeline, c) + r].end = timeline[c].end

RECURSIVE AcceptedClips(_, _)
\* the timeline as C20 describes it: a clip that names a segment id is taken
\* from that segment, or dropped when the id is unknown; a clip without a
\* segment id is a custom range when it has start and end with end > start,
\* and is dropped otherwise; the accepted clips keep their order
AcceptedClips(clips, segs) ==
    IF clips = <<>> THEN <<>>
    ELSE LET clip == Head(clips)
             accepted ==
                 IF clip.segment_id # Missing
                 THEN IF InSegmentMap(segs, clip.segment_id)
                      THEN LET seg == SegmentMapGet(segs, clip.segment_id)
                           IN  <<Clip(clip.segment_id, seg.start, seg.end,
                                      Get(clip.repeat, 1), Get(clip.speed, 1))>>
                      ELSE <<>>
                 ELSE IF clip.start # Missing /\ clip.end # Missing /\ clip.end > clip.start
                      THEN <<Clip(Missing, clip.start, clip.end,
                                  Get(clip.repeat, 1), Get(clip.speed, 1))>>
                      ELSE <<>>
         IN  accepted \o AcceptedClips(Tail(clips), segs)

\* C20: _build_timeline drops a clip whose segment_id is not in the segment
\* set, whatever other fields it carries, accepts a clip without segment_id
\* as a custom range exactly when end > start, and keeps the accepted clips
\* in their proposed order.
C20_UnknownSegmentDropped ==
    [][\A clips \in ToolClipLists :
           CreatesTimeline(clips) => timeline' = AcceptedClips(clips, run_segments)]_vars

\* the positions of the proposed clips whose segment_id is in the segment set
KnownSegmentClips(clips, segs) ==
    {i \in 1..Len(clips) :
        clips[i].segment_id # Missing /\ InSegmentMap(segs, clips[i].segment_id)}

\* C21: when a proposed clip names a segment id of the segment set, the
\* timeline clip has the start and end of that segment, and explicit start
\* and end on the proposed clip are ignored: every proposed clip with a known
\* id yields one clip of its segment, with the segment's times.
C21_KnownSegmentGivesTimes ==
    [][\A clips \in ToolClipLists :
           CreatesTimeline(clips) =>
               /\ \A k \in 1..Len(timeline') :
                      timeline'[k].segment_id # Missing =>
                          LET seg == SegmentMapGet(run_segments, timeline'[k].segment_id)
                          IN  /\ timeline'[k].start = seg.start
                              /\ timeline'[k].end = seg.end
               /\ Cardinality({k \in 1..Len(timeline') : timeline'[k].segment_id # Missing})
                      = Cardinality(KnownSegmentClips(clips, run_segments))]_vars

\* C21 witness: the proposed clip {segment_id 1, start 1, end 3, repeat 2}
\* has become a clip of segment 1 with the segment's times 0 and 2
C21_Witness ==
    /\ apc = "tools"
    /\ tool_results # <<>>
    /\ tool_results[Len(tool_results)].result = "timeline_created"
    /\ Len(timeline) = 2
    /\ timeline[1] = Clip(1, 0, 2, 2, 1)

\* C22: every clip of the current timeline has repeat >= 1 and speed > 0,
\* whatever clips the model sends to create_timeline.
C22_ClipsHaveValidRepeatAndSpeed ==
    \A k \in 1..Len(timeline) : timeline[k].repeat >= 1 /\ timeline[k].speed > 0

\* the durations of the first n ranges, added up
RECURSIVE SumDurations(_, _)
SumDurations(rs, n) ==
    IF n = 0 THEN 0 ELSE SumDurations(rs, n - 1) + (rs[n].end - rs[n].start)

\* C23: the CMX3600 file has one edit line per kept range, in order, numbered
\* from 1; its source in/out are the timecodes of the range's start and end,
\* its record-in is the timecode of the summed durations of the ranges before
\* it and its record-out the timecode of that sum plus its own duration, so
\* each line's record-in is the record-out of the line before; the kept ranges
\* {0,5},{8,10} at 30 fps are recorded at 00:00:00:00-00:00:05:00 and
\* 00:00:05:00-00:00:07:00
C23_EdlLinesFollowKeptRanges ==
    xpc = "edl" =>
        /\ Len(edl_file) = Len(kept_ranges)
        /\ \A i \in 1..Len(kept_ranges) :
               LET r == kept_ranges[i]
                   before == SumDurations(kept_ranges, i - 1)
               IN  /\ edl_file[i].edit_num = i
                   /\ edl_file[i].src_in = seconds_to_timecode(r.start, frame_rate)
                   /\ edl_file[i].src_out = seconds_to_timecode(r.end, frame_rate)
                   /\ edl_file[i].rec_in = seconds_to_timecode(before, frame_rate)
                   /\ edl_file[i].rec_out =
                          seconds_to_timecode(before + (r.end - r.start), frame_rate)
        /\ \A i \in 1..(Len(edl_file) - 1) : edl_file[i + 1].rec_in = edl_file[i].rec_out
        /\ (/\ kept_ranges = <<TimeRange(0, Seconds(5)), TimeRange(Seconds(8), Seconds(10))>>
            /\ frame_rate = 30)
               => /\ edl_file[1].rec_in = Timecode(0, 0, 0, 0)
                  /\ edl_file[1].rec_out = Timecode(0, 0, 5, 0)
                  /\ edl_file[2].rec_in = Timecode(0, 0, 5, 0)
                  /\ edl_file[2].rec_out = Timecode(0, 0, 7, 0)

\* the kept ranges {0,5},{8,10} exported at 30 fps
C23_Witness ==
    /\ xpc = "edl"
    /\ frame_rate = 30
    /\ kept_ranges = <<TimeRange(0, Seconds(5)), TimeRange(Seconds(8), Seconds(10))>>
    /\ Len(edl_file) = 2
    /\ edl_file[2].src_in = Timecode(0, 0, 8, 0)
    /\ edl_file[2].rec_out = Timecode(0, 0, 7, 0)

\* n is t * rate cut down to a whole number of frames
TruncatedFrames(n, t, rate) ==
    /\ n * TicksPerSecond <= t * rate
    /\ t * rate < (n + 1) * TicksPerSecond

\* C24: the Premiere sequence has exactly one clipitem per kept range, in
\* order; start and in are range.start * frame_rate cut down to an integer,
\* end and out are range.end * frame_rate cut down to an integer, and the
\* sequence's timebase is frame_rate
C24_ClipitemsAreTruncatedFrames ==
    xpc = "premiere_xml" =>
        /\ Len(premiere_xml.clipitems) = Len(kept_ranges)
        /\ \A i \in 1..Len(kept_ranges) :
               LET item == premiere_xml.clipitems[i]
               IN  /\ item.id = i
                   /\ TruncatedFrames(item.start, kept_ranges[i].start, frame_rate)
                   /\ TruncatedFrames(item.end, kept_ranges[i].end, frame_rate)
                   /\ item.in = item.start
                   /\ item.out = item.end
        /\ premiere_xml.timebase = frame_rate

\* two clipitems, one of them starting inside a frame
C24_Witness ==
    /\ xpc = "premiere_xml"
    /\ Len(premiere_xml.clipitems) = 2
    /\ \E i \in 1..2 :
           /\ kept_ranges[i].start = FrameTime(25, 24)
           /\ premiere_xml.clipitems[i].start * TicksPerSecond
                  < kept_ranges[i].start * frame_rate

\* C25: the FCPXML spine has exactly one clip per kept range, in order, with
\* offset and start equal to the range's start in seconds and duration equal
\* to end - start, none of them rounded to frames
C25_SpineClipsAreKeptRanges ==
    xpc = "fcpxml" =>
        /\ Len(fcpxml) = Len(kept_ranges)
        /\ \A i \in 1..Len(kept_ranges) :
               /\ fcpxml[i].name = i
               /\ fcpxml[i].offset = kept_ranges[i].start
               /\ fcpxml[i].start = kept_ranges[i].start
               /\ fcpxml[i].offset + fcpxml[i].duration = kept_ranges[i].end

\* two clips, the second starting between two frames
C25_Witness ==
    /\ xpc = "fcpxml"
    /\ Len(fcpxml) = 2
    /\ fcpxml[2].offset = FrameTime(25, 24)
    /\ FrameTime(FrameNumber(fcpxml[2].offset, frame_rate), frame_rate) # fcpxml[2].offset
    /\ fcpxml[2].duration > 0

\* the whole seconds a timecode stands for
WholeSeconds(tc) == tc.hours * 3600 + tc.minutes * 60 + tc.secs

\* C26: for non-negative seconds and a positive integer frame rate the
\* timecode's hours are floor(seconds / 3600), its minutes
\* floor((seconds mod 3600) / 60) within 0..59, its secs floor(seconds mod 60)
\* within 0..59 and its frames floor((seconds mod 1) * frame_rate) within
\* 0..frame_rate-1: each component is cut down, none is rounded up to the next
\* frame or second
C26_TimecodeTruncates ==
    xpc = "timecode" =>
        /\ timecode.hours * Seconds(3600) <= seconds
        /\ seconds < (timecode.hours + 1) * Seconds(3600)
        /\ timecode.minutes \in 0..59
        /\ (timecode.hours * 60 + timecode.minutes) * Seconds(60) <= seconds
        /\ seconds < (timecode.hours * 60 + timecode.minutes + 1) * Seconds(60)
        /\ timecode.secs \in 0..59
        /\ Seconds(WholeSeconds(timecode)) <= seconds
        /\ seconds < Seconds(WholeSeconds(timecode) + 1)
        /\ timecode.frames \in 0..(frame_rate - 1)
        /\ TruncatedFrames(timecode.frames, seconds - Seconds(WholeSeconds(timecode)),
                           frame_rate)

\* a time over an hour whose fraction lies in the second half of a frame
C26_Witness ==
    /\ xpc = "timecode"
    /\ timecode.hours = 1
    /\ timecode.minutes = 1
    /\ timecode.secs = 1
    /\ timecode.frames > 0
    /\ FramesRounded(seconds % Seconds(1), frame_rate) = timecode.frames + 1

\* the frames a timecode stands for: (h*3600 + m*60 + s + frames/rate) * rate
TotalFrames(tc, rate) == WholeSeconds(tc) * rate + tc.frames

\* t is the time of a frame: the float of k / rate for a whole k
FrameAligned(t, rate) ==
    \E k \in 0..(FrameNumber(t, rate) + 1) : FrameTime(k, rate) = t

\* C27: seconds converted to a timecode and back gives the seconds cut down to
\* a multiple of 1/frame_rate, less than 1/frame_rate below the input, and
\* gives the input itself when the input is the time of a frame
C27_RoundTripExactOnFrames ==
    xpc = "timecode" =>
        /\ TruncatedFrames(TotalFrames(timecode, frame_rate), seconds, frame_rate)
        /\ FrameAligned(seconds, frame_rate) =>
               FrameTime(TotalFrames(timecode, frame_rate), frame_rate) = seconds

\* the rows of the highest version among rows
HighestVersionRows(rows) ==
    {i \in 1..Len(rows) : ~ \E j \in 1..Len(rows) : rows[j].version > rows[i].version}

\* the export task takes the step that reads the database and generates
Exports == xpc \notin Formats /\ xpc' \in Formats

\* C28: an export resolves its ranges from the operations of an EDL row of
\* the highest version present when the task reads, from the empty list when
\* there is no row; rows of lower versions have no effect
C28_ExportReadsLatestEdl ==
    [][Exports =>
           /\ IF edls = <<>> THEN operations' = <<>>
              ELSE \E i \in HighestVersionRows(edls) : operations' = edls[i].operations
           /\ deleted_ranges' = calculate_deleted_ranges(transcript_rows[1].segments,
                                                         operations')
           /\ kept_ranges' = calculate_kept_ranges(total_duration', deleted_ranges')]_vars

\* an export after two saves: it used version 2, which differs from version 1
C28_Witness ==
    /\ xpc \in Formats
    /\ Len(edls) = 2
    /\ edls[1].version = 1
    /\ edls[2].version = 2
    /\ edls[1].operations # edls[2].operations
    /\ operations = edls[2].operations
    /\ deleted_ranges # calculate_deleted_ranges(segments, edls[1].operations)

\* C29: two renders for the same project never use the same output path
C29_RenderPathsUnique ==
    \A r1, r2 \in Runs :
        (/\ r1 # r2
         /\ renders[r1].pc # "idle"
         /\ renders[r2].pc # "idle")
            => renders[r1].output_path # renders[r2].output_path

\* request w is a call of ai_edit_video that takes a step
AiEditSteps(w) ==
    /\ requests'[w] # requests[w]
    /\ requests'[w].kind = "ai_edit_video"

\* C30: ai_edit_video adds a row to the EDL log only when the run ended with
\* finished = true and a non-empty timeline, and the row holds that timeline;
\* a call whose run ended otherwise adds no row and leaves the latest version
\* as it is
C30_AiEditPersistsFinishedTimelineOnly ==
    [][\A w \in Writers :
           AiEditSteps(w) =>
               /\ edls' # edls =>
                      /\ requests'[w].finished
                      /\ requests'[w].timeline # <<>>
                      /\ Len(edls') = Len(edls) + 1
                      /\ IsPrefix(edls, edls')
                      /\ edls'[Len(edls')].operations = <<Timeline(requests'[w].timeline)>>
               /\ ~ (requests'[w].finished /\ requests'[w].timeline # <<>>) =>
                      /\ edls' = edls
                      /\ LatestVersion(edls') = LatestVersion(edls)]_vars

\* a finished run whose timeline is in the log, after a run that did not
\* finish and left the log empty
C30_Witness ==
    /\ requests[1].kind = "ai_edit_video"
    /\ requests[1].pc = "done"
    /\ ~ requests[1].finished
    /\ requests[1].timeline # <<>>
    /\ requests[2].kind = "ai_edit_video"
    /\ requests[2].pc = "done"
    /\ requests[2].finished
    /\ Len(edls) = 1
    /\ edls[1].operations = <<Timeline(requests[2].timeline)>>

RECURSIVE InstancesBefore(_, _)
\* the instances the clips before clip c expand to: range(repeat) is empty for
\* a repeat below 1
InstancesBefore(tl, c) ==
    IF c <= 1 THEN 0
    ELSE InstancesBefore(tl, c - 1) + Max(tl[c - 1].repeat, 0)

\* the clip of the timeline that instance k of the plan was expanded from
ClipOfInstance(tl, k) ==
    CHOOSE c \in 1..Len(tl) :
        /\ InstancesBefore(tl, c) < k
        /\ k <= InstancesBefore(tl, c) + Max(tl[c].repeat, 0)

C32_MaxIterationsReplyOnlyWithoutOutcome ==
    apc = "returned" =>
        /\ finished => final_reply \in {RenderedReply(m) : m \in {"", "summary"}}
        /\ NoToolCall(response) => final_reply = ContentOrDone(response.content)

\* C33: in every result of run finished = true holds exactly when
\* output_video is not None; finished = true implies a non-empty timeline and
\* that the last transcoder invocation of the run succeeded: finished is set
\* by the step of a successful render, and no transcoder runs after it
C33_FinishedIffOutputVideo ==
    [][/\ finished' <=> output_video' # "None"
       /\ finished' => timeline' # <<>>
       /\ (~finished /\ finished') =>
              /\ FinishRenders("ok")
              /\ transcoder_calls' = transcoder_calls + 1
       /\ finished => (finished' /\ transcoder_calls' = transcoder_calls)]_vars

\* a result with the output of the second render, after a first that failed
C33_Witness ==
    /\ apc = "returned"
    /\ finished
    /\ output_video # "None"
    /\ timeline # <<>>
    /\ transcoder_calls = 2

\* C34: every range returned by calculate_kept_ranges lies within
\* [0, total_duration], 0 <= start < end <= total_duration, whatever the
\* deleted ranges, also when they start at or beyond total_duration
C34_KeptWithinDuration ==
    rpc \in {"kept", "kept_unmerged"} =>
        \A i \in 1..Len(kept_ranges) :
            /\ 0 <= kept_ranges[i].start
            /\ kept_ranges[i].start < kept_ranges[i].end
            /\ kept_ranges[i].end <= total_duration

\* C35: calculate_kept_ranges gives for a list of deleted ranges in any order,
\* overlapping, touching or nested, what it gives for the merged list, and
\* the kept ranges it returns are sorted and pairwise disjoint
C35_KeptIndependentOfMerge ==
    rpc = "kept_unmerged" =>
        /\ kept_ranges = calculate_kept_ranges(total_duration,
                             calculate_deleted_ranges(segments, operations))
        /\ \A i, j \in 1..Len(kept_ranges) :
               i < j => kept_ranges[i].end <= kept_ranges[j].start

\* deleted ranges given out of order with a nested one, and two kept ranges
C35_Witness ==
    /\ rpc = "kept_unmerged"
    /\ Emitted = <<TimeRange(2, 3), TimeRange(0, 3), TimeRange(1, 2)>>
    /\ total_duration = 10
    /\ kept_ranges = <<TimeRange(3, 10)>>

\* the operation is of one of the three types calculate_deleted_ranges reads
IsDeleteOperation(op) == op.type \in {"delete_segments", "delete_silences", "delete_words"}

\* C36: operations of type timeline and of any unrecognised type contribute no
\* deleted range: the deleted ranges are those of the other operations alone,
\* and an EDL that holds only such operations, whatever the clips of a
\* timeline, exports the single kept range [0, total_duration]
C36_TimelineOperationsDeleteNothing ==
    rpc \in {"deleted", "kept"} =>
        /\ deleted_ranges =
               calculate_deleted_ranges(segments, SelectSeq(operations, IsDeleteOperation))
        /\ (/\ rpc = "kept"
            /\ operations # <<>>
            /\ \A o \in 1..Len(operations) : ~IsDeleteOperation(operations[o]))
               => kept_ranges = <<TimeRange(0, total_duration)>>

\* the export of an EDL that holds one timeline operation with a clip
C36_Witness ==
    /\ rpc = "kept"
    /\ operations = <<Timeline(<<Clip(1, 0, 2, 1, 1)>>)>>
    /\ total_duration = 10
    /\ kept_ranges = <<TimeRange(0, 10)>>

\* the least and the greatest of two times
Least(a, b) == IF a <= b THEN a ELSE b

\* some instant lies strictly inside the silence and strictly inside the segment
OverlapsSegment(silence, seg) ==
    Max(silence.start, seg.start) < Least(silence.end, seg.end)

\* C37: every silence of _detect_silences has 0 <= start < end <= duration,
\* lasts at least min_silence_duration and overlaps no segment, also when
\* segments overlap or are nested in one another
C37_SilencesBetweenSegments ==
    spc = "detected" =>
        \A i \in 1..Len(silences) :
            /\ 0 <= silences[i].start
            /\ silences[i].start < silences[i].end
            /\ silences[i].end <= audio_duration
            /\ silences[i].end - silences[i].start >= min_silence_duration
            /\ \A k \in 1..Len(result_segments) :
                   ~OverlapsSegment(silences[i], result_segments[k])

\* request w answers a confirm_ai_suggestion in this step
ConfirmAnswers(w) ==
    /\ requests[w].pc # "done"
    /\ requests'[w].pc = "done"
    /\ requests'[w].kind = "confirm_ai_suggestion"

\* request w calls confirm_ai_suggestion in this step
ConfirmCalled(w) ==
    /\ requests[w].pc = "idle"
    /\ requests'[w].pc # "idle"
    /\ requests'[w].kind = "confirm_ai_suggestion"

\* the EDL row of the highest version and its successor built from one operation
AppendsOneOperation ==
    /\ Len(edls') = Len(edls) + 1
    /\ LET row == edls'[Len(edls')]
       IN  \E latest \in LatestChoices(edls) :
               /\ row.version = CurrentVersion(edls, latest) + 1
               /\ Len(row.operations) = Len(ExistingOperations(edls, latest)) + 1
               /\ SubSeq(row.operations, 1, Len(row.operations) - 1)
                      = ExistingOperations(edls, latest)

C39_ExportRecordStatus ==
    [][/\ export'.status = "completed"
           => /\ export'.format \in Formats
              /\ xpc' = export'.format
              /\ export'.file_url # "None"
              /\ export'.file_key # "None"
              /\ export'.expires_at # "None"
       /\ (tpc = "running" /\ tpc' \in {"queued", "gave_up"})
           => /\ export'.status = "failed"
              /\ export'.error_message \notin {"None", ""}
       /\ export.status = "completed" => export'.status = "completed"
      ]_vars

\* an attempt failed and a retry completed the export
C39_Witness ==
    /\ export.status = "completed"
    /\ retries > 0
    /\ tpc = "succeeded"

====
